---- MODULE Spec2Model ----
(***************************************************************************)
(* Verification model of the RocKontrol output engine                      *)
(* (src/OutputEngine): the per-output transition / crop / edge-blend state *)
(* machine of OutputSink (output_sink.h), the frame ring buffer            *)
(* FrameRingBuffer and the texture pool TexturePool (switcher_frame.h),    *)
(* and the send queue of the network sink NDIOutput (output_ndi.h).        *)
(*                                                                         *)
(* float values that the code computes with (transition_progress_, the     *)
(* per-frame step) are modelled as IEEE-754 binary32 values, written as    *)
(* integers in units of 2^-28 and rounded to 24 significant bits after     *)
(* every operation.  float values that the code only stores and copies     *)
(* (crop rectangles, edge-blend parameters, intensity) are written in      *)
(* hundredths.  transition_duration_frames_ holds whole frame counts.      *)
(***************************************************************************)
EXTENDS Integers, Sequences, FiniteSets, TLC

(***************************************************************************)
(* Bounds of the model.                                                    *)
(***************************************************************************)
\* longest duration (frames) handed to the startTransition family in Spec
MaxDuration == 2
\* longest duration (frames) handed to startTransition in SpecTicks
MaxTickDuration == 12
\* largest capacity a FrameRingBuffer is constructed with or resized to
MaxCapacity == 3
\* number of frames the producer pushes into a FrameRingBuffer
MaxPushes == 5
\* largest poolSize a TexturePool is constructed with
MaxPoolSize == 2
\* number of textures the device creates for a TexturePool, the constructor's
\* included
MaxTextures == 3
\* number of valid frames offered to a running NDIOutput
MaxOffered == 7

(***************************************************************************)
(* binary32 arithmetic on integers in units of 2^-28.                      *)
(***************************************************************************)
\* 1.0f
F32One == 268435456
\* the value standing for +infinity: larger than every finite value the
\* model reaches (|x| < 4.0f), absorbing under addition
F32Inf == 1073741824

F32Abs(n) == IF n < 0 THEN 0 - n ELSE n

\* spacing of binary32 values around magnitude m (units of 2^-28):
\* magnitudes below 2^24 units are exact multiples of the unit
F32Quantum(m) ==
    IF m < 16777216 THEN 1
    ELSE IF m < 33554432 THEN 2
    ELSE IF m < 67108864 THEN 4
    ELSE IF m < 134217728 THEN 8
    ELSE IF m < 268435456 THEN 16
    ELSE IF m < 536870912 THEN 32
    ELSE 64

\* round num/den (num >= 0, den > 0) to the nearest integer, ties to even
RoundHalfEven(num, den) ==
    LET q == num \div den
        r == num % den
    IN  IF 2 * r > den THEN q + 1
        ELSE IF 2 * r < den THEN q
        ELSE IF q % 2 = 0 THEN q ELSE q + 1

\* round an exact value n (units of 2^-28) to binary32
F32Round(n) ==
    LET m == F32Abs(n)
        u == F32Quantum(m)
        r == u * RoundHalfEven(m, u)
    IN  IF n < 0 THEN 0 - r ELSE r

\* a + b in binary32
F32Add(a, b) ==
    IF a = F32Inf \/ b = F32Inf THEN F32Inf ELSE F32Round(a + b)

\* 1.0f / d in binary32, d a whole number of frames; 1.0f / 0.0f is +inf
F32Recip(d) ==
    IF d = 0 THEN F32Inf
    ELSE LET a == F32Abs(d)
             u == F32Quantum(F32One \div a)
             r == u * RoundHalfEven(F32One, a * u)
         IN  IF d < 0 THEN 0 - r ELSE r

F32Min(a, b) == IF b < a THEN b ELSE a
F32Max(a, b) == IF a < b THEN b ELSE a


(***************************************************************************)
(* OutputSink: types and the state after construction.                     *)
(***************************************************************************)
OutputSourceType == {"None", "Screen", "DirectInput", "LegacyBus"}

OutputTransitionType == {"Cut", "Dissolve", "Wipe", "Dip"}

\* CropRegion {x, y, w, h}; the default member initialisers give the full frame
CropRegion(x, y, w, h) == [x |-> x, y |-> y, w |-> w, h |-> h]

DefaultCrop == CropRegion(0, 0, 100, 100)

\* EdgeBlendParams as its default member initialisers leave it
DefaultEdgeBlend ==
    [featherLeft |-> 0, featherRight |-> 0, featherTop |-> 0, featherBottom |-> 0,
     blendGamma |-> 220, blendPower |-> 100, blackLevel |-> 0,
     gammaR |-> 100, gammaG |-> 100, gammaB |-> 100,
     warp |-> [i \in 1..16 |-> 0], warpCurvature |-> 0,
     lensK1 |-> 0, lensK2 |-> 0, lensCenterX |-> 50, lensCenterY |-> 50,
     activeCorner |-> 0]

\* the ten-value aggregate {featherL, featherR, featherT, featherB, gamma,
\* power, blackLevel, gammaR, gammaG, gammaB}: members without an initialiser
\* take their default member initialiser
EdgeBlend10(a) ==
    [DefaultEdgeBlend EXCEPT
        !.featherLeft = a[1], !.featherRight = a[2],
        !.featherTop = a[3], !.featherBottom = a[4],
        !.blendGamma = a[5], !.blendPower = a[6], !.blackLevel = a[7],
        !.gammaR = a[8], !.gammaG = a[9], !.gammaB = a[10]]

\* the members of OutputSink as their initialisers leave them
NewSink ==
    [source_type_ |-> "LegacyBus",
     screen_index_ |-> -1,
     direct_input_index_ |-> -1,
     current_input_ |-> -1,
     pending_input_ |-> -1,
     transition_in_progress_ |-> FALSE,
     transition_progress_ |-> 0,
     transition_duration_frames_ |-> 30,
     transition_type_ |-> "Dissolve",
     current_crop_ |-> DefaultCrop,
     pending_crop_ |-> DefaultCrop,
     current_edge_blend_ |-> DefaultEdgeBlend,
     pending_edge_blend_ |-> DefaultEdgeBlend,
     intensity_ |-> 100]

(***************************************************************************)
(* OutputSink: the operations, each the whole member function.  A bool     *)
(* function yields [s |-> sink afterwards, ret |-> value returned].        *)
(***************************************************************************)
setCurrentInput(s, idx) ==
    [s EXCEPT !.current_input_ = idx,
              !.source_type_ = "DirectInput",
              !.direct_input_index_ = idx]

setPendingInput(s, idx) == [s EXCEPT !.pending_input_ = idx]

setTransitionDuration(s, frames) == [s EXCEPT !.transition_duration_frames_ = frames]

setTransitionType(s, type) == [s EXCEPT !.transition_type_ = type]

\* startTransition whose instant-cut branch forgets to leave the transition
startTransition_StaysTransitioning(s, toInput, type, durationFrames) ==
    IF type = "Cut" \/ durationFrames <= 0
    THEN [s EXCEPT !.current_input_ = toInput,
                   !.direct_input_index_ = toInput,
                   !.source_type_ = "DirectInput",
                   !.pending_input_ = -1,
                   !.transition_progress_ = 0]
    ELSE [s EXCEPT !.pending_input_ = toInput,
                   !.transition_type_ = type,
                   !.transition_duration_frames_ = durationFrames,
                   !.transition_in_progress_ = TRUE,
                   !.transition_progress_ = 0]

\* startTransition that completes a transition in flight before it starts
\* the new one
startTransition_CommitsInterrupted(s, toInput, type, durationFrames) ==
    IF type = "Cut" \/ durationFrames <= 0
    THEN [s EXCEPT !.current_input_ = toInput,
                   !.direct_input_index_ = toInput,
                   !.source_type_ = "DirectInput",
                   !.pending_input_ = -1,
                   !.transition_in_progress_ = FALSE,
                   !.transition_progress_ = 0]
    ELSE [s EXCEPT !.current_input_ = IF s.transition_in_progress_
                                      THEN s.pending_input_ ELSE s.current_input_,
                   !.current_crop_ = IF s.transition_in_progress_
                                     THEN s.pending_crop_ ELSE s.current_crop_,
                   !.current_edge_blend_ = IF s.transition_in_progress_
                                           THEN s.pending_edge_blend_
                                           ELSE s.current_edge_blend_,
                   !.pending_input_ = toInput,
                   !.transition_type_ = type,
                   !.transition_duration_frames_ = durationFrames,
                   !.transition_in_progress_ = TRUE,
                   !.transition_progress_ = 0]

startTransition(s, toInput, type, durationFrames) ==
    IF type = "Cut" \/ durationFrames <= 0
    THEN [s EXCEPT !.current_input_ = toInput,
                   !.direct_input_index_ = toInput,
                   !.source_type_ = "DirectInput",
                   !.pending_input_ = -1,
                   !.transition_in_progress_ = FALSE,
                   !.transition_progress_ = 0]
    ELSE [s EXCEPT !.pending_input_ = toInput,
                   !.transition_type_ = type,
                   !.transition_duration_frames_ = durationFrames,
                   !.transition_in_progress_ = TRUE,
                   !.transition_progress_ = 0]

\* advanceTransition whose commit leaves the edge blend behind
advanceTransition_NoBlend(s) ==
    IF ~s.transition_in_progress_ THEN [s |-> s, ret |-> FALSE]
    ELSE LET step == F32Recip(s.transition_duration_frames_)
             progress == F32Add(s.transition_progress_, step)
         IN  IF progress >= F32One
             THEN [s |-> [s EXCEPT !.current_input_ = s.pending_input_,
                                   !.direct_input_index_ = s.pending_input_,
                                   !.source_type_ = "DirectInput",
                                   !.current_crop_ = s.pending_crop_,
                                   !.pending_input_ = -1,
                                   !.transition_in_progress_ = FALSE,
                                   !.transition_progress_ = 0],
                   ret |-> TRUE]
             ELSE [s |-> [s EXCEPT !.transition_progress_ = progress],
                   ret |-> FALSE]

advanceTransition(s) ==
    IF ~s.transition_in_progress_ THEN [s |-> s, ret |-> FALSE]
    ELSE LET step == F32Recip(s.transition_duration_frames_)
             progress == F32Add(s.transition_progress_, step)
         IN  IF progress >= F32One
             THEN [s |-> [s EXCEPT !.current_input_ = s.pending_input_,
                                   !.direct_input_index_ = s.pending_input_,
                                   !.source_type_ = "DirectInput",
                                   !.current_crop_ = s.pending_crop_,
                                   !.current_edge_blend_ = s.pending_edge_blend_,
                                   !.pending_input_ = -1,
                                   !.transition_in_progress_ = FALSE,
                                   !.transition_progress_ = 0],
                   ret |-> TRUE]
             ELSE [s |-> [s EXCEPT !.transition_progress_ = progress],
                   ret |-> FALSE]

\* cancelTransition that switches to the pending input on its way out
cancelTransition_Commits(s) ==
    [s EXCEPT !.current_input_ = s.pending_input_,
              !.pending_input_ = -1,
              !.transition_in_progress_ = FALSE,
              !.transition_progress_ = 0]

cancelTransition(s) ==
    [s EXCEPT !.pending_input_ = -1,
              !.transition_in_progress_ = FALSE,
              !.transition_progress_ = 0]

\* setTransitionProgress without the check for a transition in progress
setTransitionProgress_NoGuard(s, progress) ==
    LET clamped == F32Max(0, F32Min(F32One, progress))
    IN  IF clamped >= F32One
        THEN [s |-> [s EXCEPT !.current_input_ = s.pending_input_,
                              !.direct_input_index_ = s.pending_input_,
                              !.source_type_ = "DirectInput",
                              !.current_crop_ = s.pending_crop_,
                              !.current_edge_blend_ = s.pending_edge_blend_,
                              !.pending_input_ = -1,
                              !.transition_in_progress_ = FALSE,
                              !.transition_progress_ = 0],
              ret |-> TRUE]
        ELSE [s |-> [s EXCEPT !.transition_progress_ = clamped],
              ret |-> TRUE]

\* setTransitionProgress that clamps at 1 only, letting a negative progress
\* through
setTransitionProgress_NoFloor(s, progress) ==
    IF ~s.transition_in_progress_ THEN [s |-> s, ret |-> FALSE]
    ELSE LET clamped == F32Min(F32One, progress)
         IN  IF clamped >= F32One
             THEN [s |-> [s EXCEPT !.current_input_ = s.pending_input_,
                                   !.direct_input_index_ = s.pending_input_,
                                   !.source_type_ = "DirectInput",
                                   !.current_crop_ = s.pending_crop_,
                                   !.current_edge_blend_ = s.pending_edge_blend_,
                                   !.pending_input_ = -1,
                                   !.transition_in_progress_ = FALSE,
                                   !.transition_progress_ = 0],
                   ret |-> TRUE]
             ELSE [s |-> [s EXCEPT !.transition_progress_ = clamped],
                   ret |-> TRUE]

setTransitionProgress(s, progress) ==
    IF ~s.transition_in_progress_ THEN [s |-> s, ret |-> FALSE]
    ELSE LET clamped == F32Max(0, F32Min(F32One, progress))
         IN  IF clamped >= F32One
             THEN [s |-> [s EXCEPT !.current_input_ = s.pending_input_,
                                   !.direct_input_index_ = s.pending_input_,
                                   !.source_type_ = "DirectInput",
                                   !.current_crop_ = s.pending_crop_,
                                   !.current_edge_blend_ = s.pending_edge_blend_,
                                   !.pending_input_ = -1,
                                   !.transition_in_progress_ = FALSE,
                                   !.transition_progress_ = 0],
                   ret |-> TRUE]
             ELSE [s |-> [s EXCEPT !.transition_progress_ = clamped],
                   ret |-> TRUE]

startTBarTransition(s, toInput, type) ==
    [s EXCEPT !.pending_input_ = toInput,
              !.transition_type_ = type,
              !.transition_duration_frames_ = 0,
              !.transition_in_progress_ = TRUE,
              !.transition_progress_ = 0]

startTBarTransitionWithCropAndBlend(s, toInput, type, crop, blend) ==
    [s EXCEPT !.pending_input_ = toInput,
              !.pending_crop_ = crop,
              !.pending_edge_blend_ = EdgeBlend10(blend),
              !.transition_type_ = type,
              !.transition_duration_frames_ = 0,
              !.transition_in_progress_ = TRUE,
              !.transition_progress_ = 0]

setIntensity(s, intensity) ==
    [s EXCEPT !.intensity_ = F32Max(0, F32Min(100, intensity))]

setCrop(s, crop) == [s EXCEPT !.current_crop_ = crop]

setPendingCrop(s, crop) == [s EXCEPT !.pending_crop_ = crop]

\* all 32 members are given by the caller; the model's callers pass the
\* defaults for the warp, lens and corner arguments
setEdgeBlend(s, blend) == [s EXCEPT !.current_edge_blend_ = EdgeBlend10(blend)]

setPendingEdgeBlend(s, blend) == [s EXCEPT !.pending_edge_blend_ = EdgeBlend10(blend)]

startTransitionWithCrop(s, toInput, type, durationFrames, crop) ==
    LET s1 == [s EXCEPT !.pending_crop_ = crop]
    IN  IF type = "Cut" \/ durationFrames <= 0
        THEN [s1 EXCEPT !.current_input_ = toInput,
                        !.direct_input_index_ = toInput,
                        !.source_type_ = "DirectInput",
                        !.current_crop_ = s1.pending_crop_,
                        !.pending_input_ = -1,
                        !.transition_in_progress_ = FALSE,
                        !.transition_progress_ = 0]
        ELSE [s1 EXCEPT !.pending_input_ = toInput,
                        !.transition_type_ = type,
                        !.transition_duration_frames_ = durationFrames,
                        !.transition_in_progress_ = TRUE,
                        !.transition_progress_ = 0]

\* startTransitionWithCropAndBlend that applies the crop when the transition
\* starts instead of when it completes
startTransitionWithCropAndBlend_EagerCrop(s, toInput, type, durationFrames, crop, blend) ==
    LET s1 == [s EXCEPT !.pending_crop_ = crop,
                        !.pending_edge_blend_ = EdgeBlend10(blend)]
    IN  IF type = "Cut" \/ durationFrames <= 0
        THEN [s1 EXCEPT !.current_input_ = toInput,
                        !.direct_input_index_ = toInput,
                        !.source_type_ = "DirectInput",
                        !.current_crop_ = s1.pending_crop_,
                        !.current_edge_blend_ = s1.pending_edge_blend_,
                        !.pending_input_ = -1,
                        !.transition_in_progress_ = FALSE,
                        !.transition_progress_ = 0]
        ELSE [s1 EXCEPT !.pending_input_ = toInput,
                        !.current_crop_ = s1.pending_crop_,
                        !.transition_type_ = type,
                        !.transition_duration_frames_ = durationFrames,
                        !.transition_in_progress_ = TRUE,
                        !.transition_progress_ = 0]

startTransitionWithCropAndBlend(s, toInput, type, durationFrames, crop, blend) ==
    LET s1 == [s EXCEPT !.pending_crop_ = crop,
                        !.pending_edge_blend_ = EdgeBlend10(blend)]
    IN  IF type = "Cut" \/ durationFrames <= 0
        THEN [s1 EXCEPT !.current_input_ = toInput,
                        !.direct_input_index_ = toInput,
                        !.source_type_ = "DirectInput",
                        !.current_crop_ = s1.pending_crop_,
                        !.current_edge_blend_ = s1.pending_edge_blend_,
                        !.pending_input_ = -1,
                        !.transition_in_progress_ = FALSE,
                        !.transition_progress_ = 0]
        ELSE [s1 EXCEPT !.pending_input_ = toInput,
                        !.transition_type_ = type,
                        !.transition_duration_frames_ = durationFrames,
                        !.transition_in_progress_ = TRUE,
                        !.transition_progress_ = 0]

advanceTransitionWithCrop(s) ==
    IF ~s.transition_in_progress_ THEN [s |-> s, ret |-> FALSE]
    ELSE LET step == F32Recip(s.transition_duration_frames_)
             progress == F32Add(s.transition_progress_, step)
         IN  IF progress >= F32One
             THEN [s |-> [s EXCEPT !.current_input_ = s.pending_input_,
                                   !.direct_input_index_ = s.pending_input_,
                                   !.source_type_ = "DirectInput",
                                   !.current_crop_ = s.pending_crop_,
                                   !.current_edge_blend_ = s.pending_edge_blend_,
                                   !.pending_input_ = -1,
                                   !.transition_in_progress_ = FALSE,
                                   !.transition_progress_ = 0],
                   ret |-> TRUE]
             ELSE [s |-> [s EXCEPT !.transition_progress_ = progress],
                   ret |-> FALSE]

(***************************************************************************)
(* FrameRingBuffer (switcher_frame.h): the frame type, the state after     *)
(* construction and the member functions, each the whole function body as  *)
(* it runs under its lock_guard.  A SwitcherFrame is written by the two    *)
(* members that tell frames apart, frame_number and valid; size_t indices  *)
(* stay below capacity_, so no arithmetic on them wraps.  A function with  *)
(* an output parameter yields [b |-> buffer afterwards, out |-> the        *)
(* caller's frame afterwards, ret |-> value returned].                     *)
(***************************************************************************)
\* SwitcherFrame() and SwitcherFrame::reset()
NoSwitcherFrame == [frame_number |-> 0, valid |-> FALSE]

\* the n-th frame a source delivers
SwitcherFrame(n) == [frame_number |-> n, valid |-> TRUE]

FrameRingBuffer(capacity) ==
    [capacity_ |-> capacity,
     frames_ |-> [i \in 0..(capacity - 1) |-> NoSwitcherFrame],
     write_idx_ |-> 0,
     read_idx_ |-> 0,
     count_ |-> 0]

\* push that counts every frame, also the one that overwrites the oldest
FrameRingBuffer_push_AlwaysCounts(b, f) ==
    [b |-> [b EXCEPT !.frames_[b.write_idx_] = f,
                     !.write_idx_ = (b.write_idx_ + 1) % b.capacity_,
                     !.count_ = b.count_ + 1],
     ret |-> TRUE]

\* push that overwrites the oldest frame of a full buffer without moving
\* the read position past it
FrameRingBuffer_push_KeepsReadIdx(b, f) ==
    [b |-> [b EXCEPT !.frames_[b.write_idx_] = f,
                     !.write_idx_ = (b.write_idx_ + 1) % b.capacity_,
                     !.count_ = IF b.count_ < b.capacity_ THEN b.count_ + 1
                                ELSE b.count_],
     ret |-> TRUE]

FrameRingBuffer_push(b, f) ==
    [b |-> [b EXCEPT !.frames_[b.write_idx_] = f,
                     !.write_idx_ = (b.write_idx_ + 1) % b.capacity_,
                     !.count_ = IF b.count_ < b.capacity_ THEN b.count_ + 1
                                ELSE b.count_,
                     !.read_idx_ = IF b.count_ < b.capacity_ THEN b.read_idx_
                                   ELSE (b.read_idx_ + 1) % b.capacity_],
     ret |-> TRUE]

\* peekLatest without the test for an empty buffer
FrameRingBuffer_peekLatest_NoEmptyCheck(b, out) ==
    LET latest == (b.write_idx_ + b.capacity_ - 1) % b.capacity_
    IN  [b |-> b, out |-> b.frames_[latest], ret |-> TRUE]

FrameRingBuffer_peekLatest(b, out) ==
    IF b.count_ = 0 THEN [b |-> b, out |-> out, ret |-> FALSE]
    ELSE LET latest == (b.write_idx_ + b.capacity_ - 1) % b.capacity_
         IN  [b |-> b, out |-> b.frames_[latest], ret |-> TRUE]

FrameRingBuffer_pop(b, out) ==
    IF b.count_ = 0 THEN [b |-> b, out |-> out, ret |-> FALSE]
    ELSE [b |-> [b EXCEPT !.read_idx_ = (b.read_idx_ + 1) % b.capacity_,
                          !.count_ = b.count_ - 1],
          out |-> b.frames_[b.read_idx_],
          ret |-> TRUE]

FrameRingBuffer_size(b) == b.count_

FrameRingBuffer_empty(b) == FrameRingBuffer_size(b) = 0

\* clear that rewinds the positions and leaves the frames and their count
FrameRingBuffer_clear_KeepsFrames(b) ==
    [b EXCEPT !.write_idx_ = 0,
              !.read_idx_ = 0]

FrameRingBuffer_clear(b) ==
    [b EXCEPT !.frames_ = [i \in DOMAIN b.frames_ |-> NoSwitcherFrame],
              !.write_idx_ = 0,
              !.read_idx_ = 0,
              !.count_ = 0]

\* std::vector::resize keeps the leading elements; every element is reset
\* right after, so the buffer ends up as a newly constructed one
FrameRingBuffer_resize(b, capacity) ==
    [b EXCEPT !.capacity_ = capacity,
              !.frames_ = [i \in 0..(capacity - 1) |-> NoSwitcherFrame],
              !.write_idx_ = 0,
              !.read_idx_ = 0,
              !.count_ = 0]

(***************************************************************************)
(* TexturePool (switcher_frame.h): the textures, the state after           *)
(* construction and the member functions, each the whole function body.    *)
(* A texture is written by its identity and its dimensions; the device     *)
(* creates the texture it is asked for.                                    *)
(***************************************************************************)
\* the id<MTLTexture> the device creates as its n-th texture
Texture(n, width, height) == [id |-> n, width |-> width, height |-> height]

\* nil; a message to nil returns 0
NilTexture == Texture(0, 0, 0)

\* TexturePool(device, width, height, poolSize): poolSize textures of the
\* given dimensions are created and kept
TexturePool(width, height, poolSize) ==
    [width_ |-> width,
     height_ |-> height,
     available_ |-> [i \in 1..poolSize |-> Texture(i, width, height)]]

\* acquire that hands out available_.back() without the pop_back()
TexturePool_acquire_NoPopBack(p, n) ==
    IF p.available_ # <<>>
    THEN [p |-> p, tex |-> p.available_[Len(p.available_)], created |-> FALSE]
    ELSE [p |-> p, tex |-> Texture(n, p.width_, p.height_), created |-> TRUE]

\* acquire that creates a texture although one is available
TexturePool_acquire_AlwaysCreates(p, n) ==
    [p |-> p, tex |-> Texture(n, p.width_, p.height_), created |-> TRUE]

\* n numbers the texture the device creates if it is asked for one; yields
\* [p |-> pool afterwards, tex |-> texture returned, created |-> whether the
\* device was asked]
TexturePool_acquire(p, n) ==
    IF p.available_ # <<>>
    THEN [p |-> [p EXCEPT !.available_ = SubSeq(p.available_, 1,
                                                Len(p.available_) - 1)],
          tex |-> p.available_[Len(p.available_)],
          created |-> FALSE]
    ELSE [p |-> p, tex |-> Texture(n, p.width_, p.height_), created |-> TRUE]

\* release that keeps every texture, whatever its dimensions
TexturePool_release_NoSizeCheck(p, texture) ==
    IF texture = NilTexture THEN p
    ELSE [p EXCEPT !.available_ = Append(p.available_, texture)]

TexturePool_release(p, texture) ==
    IF texture = NilTexture THEN p
    ELSE IF texture.width = p.width_ /\ texture.height = p.height_
    THEN [p EXCEPT !.available_ = Append(p.available_, texture)]
    ELSE p

\* resize that keeps the textures of the old dimensions
TexturePool_resize_KeepsAvailable(p, width, height) ==
    IF width = p.width_ /\ height = p.height_ THEN p
    ELSE [p EXCEPT !.width_ = width,
                   !.height_ = height]

\* resize that empties the pool also when the dimensions stay
TexturePool_resize_AlwaysClears(p, width, height) ==
    [p EXCEPT !.available_ = <<>>,
              !.width_ = width,
              !.height_ = height]

TexturePool_resize(p, width, height) ==
    IF width = p.width_ /\ height = p.height_ THEN p
    ELSE [p EXCEPT !.available_ = <<>>,
                   !.width_ = width,
                   !.height_ = height]

(***************************************************************************)
(* NDIOutput (output_ndi.h): the network sink.  The header declares its    *)
(* members and their initial values; the member functions are defined      *)
(* outside the header, and are written here as section 4.5 and section 5   *)
(* of the specification describe them.  A frame is written by its number   *)
(* and its validity; rendering and conversion to the wire representation   *)
(* are opaque.  legacy_mode_ keeps its initial value false and no target   *)
(* frame rate is set.                                                      *)
(***************************************************************************)
\* NDIOutputConfig::async_queue_size = 5
DefaultAsyncQueueSize == 5

\* the members of NDIOutput as their initialisers leave them, configured
\* with the given queue depth
NewNDIOutput(depth) ==
    [running_ |-> FALSE,
     should_stop_ |-> FALSE,
     status_ |-> "Stopped",
     legacy_mode_ |-> FALSE,
     async_queue_size |-> depth,
     pixel_queue_ |-> <<>>,
     frames_sent_ |-> 0,
     frames_dropped_ |-> 0]

NDIOutput_start(n) ==
    [n EXCEPT !.running_ = TRUE,
              !.should_stop_ = FALSE,
              !.status_ = "Running"]

\* the queue step that evicts the oldest entry to make room
NDIOutput_enqueue_DropOldest(n, f) ==
    IF ~n.running_ \/ ~f.valid THEN [n |-> n, ret |-> FALSE]
    ELSE IF Len(n.pixel_queue_) >= n.async_queue_size
    THEN [n |-> [n EXCEPT !.pixel_queue_ = Append(Tail(n.pixel_queue_), f.frame_number),
                          !.frames_dropped_ = n.frames_dropped_ + 1],
          ret |-> TRUE]
    ELSE [n |-> [n EXCEPT !.pixel_queue_ = Append(n.pixel_queue_, f.frame_number)],
          ret |-> TRUE]

\* the queue step that rejects a frame without counting it
NDIOutput_enqueue_NoCount(n, f) ==
    IF ~n.running_ \/ ~f.valid THEN [n |-> n, ret |-> FALSE]
    ELSE IF Len(n.pixel_queue_) >= n.async_queue_size
    THEN [n |-> n, ret |-> FALSE]
    ELSE [n |-> [n EXCEPT !.pixel_queue_ = Append(n.pixel_queue_, f.frame_number)],
          ret |-> TRUE]

\* the queue step that counts a frame as dropped when the sink is not
\* running
NDIOutput_enqueue_CountsRejected(n, f) ==
    IF ~n.running_ \/ ~f.valid
    THEN [n |-> [n EXCEPT !.frames_dropped_ = n.frames_dropped_ + 1], ret |-> FALSE]
    ELSE IF Len(n.pixel_queue_) >= n.async_queue_size
    THEN [n |-> [n EXCEPT !.frames_dropped_ = n.frames_dropped_ + 1], ret |-> FALSE]
    ELSE [n |-> [n EXCEPT !.pixel_queue_ = Append(n.pixel_queue_, f.frame_number)],
          ret |-> TRUE]

\* what pushFrame and pushPixelData do with a rendered frame, under
\* queue_mutex_: refuse it when the sink is not running or the frame is
\* invalid, reject and count it when the queue is full, enqueue it otherwise
NDIOutput_enqueue(n, f) ==
    IF ~n.running_ \/ ~f.valid THEN [n |-> n, ret |-> FALSE]
    ELSE IF Len(n.pixel_queue_) >= n.async_queue_size
    THEN [n |-> [n EXCEPT !.frames_dropped_ = n.frames_dropped_ + 1], ret |-> FALSE]
    ELSE [n |-> [n EXCEPT !.pixel_queue_ = Append(n.pixel_queue_, f.frame_number)],
          ret |-> TRUE]

\* renders crop and edge-blend onto the frame, then enqueues the result
NDIOutput_pushFrame(n, frame) == NDIOutput_enqueue(n, frame)

\* enqueues an already rendered buffer
NDIOutput_pushPixelData(n, frame) == NDIOutput_enqueue(n, frame)

\* sendLoop, woken on queue-not-empty-or-stop, leaves when stop was asked for
NDIOutput_sendLoopExits(n) == n.should_stop_

\* sendLoop that takes the newest entry
NDIOutput_sendLoopPop_Newest(n) ==
    [n |-> [n EXCEPT !.pixel_queue_ = SubSeq(n.pixel_queue_, 1, Len(n.pixel_queue_) - 1)],
     frame |-> n.pixel_queue_[Len(n.pixel_queue_)]]

\* sendLoop pops the oldest entry
NDIOutput_sendLoopPop(n) ==
    [n |-> [n EXCEPT !.pixel_queue_ = Tail(n.pixel_queue_)],
     frame |-> Head(n.pixel_queue_)]

\* sendLoop has sent a frame
NDIOutput_sendLoopSent(n) == [n EXCEPT !.frames_sent_ = n.frames_sent_ + 1]

\* stop(), first half: ask the send task to leave and wake it
NDIOutput_stopSignal(n) == [n EXCEPT !.should_stop_ = TRUE]

\* stop(), second half, after send_thread_.join(): release the resources
NDIOutput_stopJoined(n) ==
    [n EXCEPT !.running_ = FALSE,
              !.status_ = "Stopped",
              !.pixel_queue_ = <<>>]

(***************************************************************************)
(* The sink driven through its public interface by one control thread.     *)
(*   sink  the OutputSink object                                           *)
(*   call  the last call: its name, arguments and returned value (<<>>     *)
(*         for a void function), and                                       *)
(*         whether and how far a transition was under way when it was made *)
(*   txn   bookkeeping about the transition in flight: the current         *)
(*         (input, crop, edge-blend) triple when it was started, the       *)
(*         number of advance calls made since with no other call in        *)
(*         between (-1 once another call intervened), whether only         *)
(*         advance / setTransitionProgress calls were made since, the      *)
(*         input it was started towards, and whether pending_crop_ and     *)
(*         pending_edge_blend_ date from a transition that was cancelled   *)
(*         (no call has staged a crop or an edge-blend since)              *)
(***************************************************************************)
VARIABLES sink, call, txn

(***************************************************************************)
(* State of the threaded executions (SpecRender, SpecRace below), in which *)
(* the member functions run one statement at a time:                       *)
(*   pc     where each thread stands; "idle" between calls                 *)
(*   frame  the call each control thread is executing: its name, its       *)
(*          arguments and the triple the sink held when it was entered     *)
(*   rd     the render thread's read of the triple: the values fetched so  *)
(*          far and the triples the sink held between calls since the      *)
(*          read began                                                     *)
(*   race   the input the transition in flight was started towards and the *)
(*          number of times its commit block was entered                   *)
(***************************************************************************)
VARIABLES pc, frame, rd, race

(***************************************************************************)
(* State of the executions of a FrameRingBuffer (SpecRing, SpecRingThreads *)
(* below):                                                                 *)
(*   ring    the FrameRingBuffer object                                    *)
(*   out     per thread, the SwitcherFrame variable it hands to pop and    *)
(*           peekLatest                                                    *)
(*   rcall   the last call on the buffer that returned: its name, the      *)
(*           thread that made it, its argument (the number of the frame    *)
(*           pushed, the capacity asked of resize, 0 otherwise), the bool  *)
(*           it returned (<<>> for clear, resize and size) and the size_t  *)
(*           it returned (-1 unless size)                                  *)
(*   hist    the number of frames pushed so far, the frames pushed and     *)
(*           neither popped, overwritten nor cleared (oldest first), the   *)
(*           frame numbers that pop handed out, and the number of frames   *)
(*           that had been pushed when clear or resize was last called     *)
(*   mutex_  the thread holding the buffer's mutex, "none" when free       *)
(*   rth     per thread, the call it is executing: position, name,         *)
(*           argument, the buffer and the thread's out frame when the lock *)
(*           was taken                                                     *)
(***************************************************************************)
VARIABLES ring, out, rcall, hist, mutex_, rth

seqVars == <<call, txn>>

concVars == <<pc, frame, rd, race>>

sinkVars == <<sink, call, txn, pc, frame, rd, race>>

(***************************************************************************)
(* State of the executions of a TexturePool (SpecPool below):              *)
(*   pool   the TexturePool object                                         *)
(*   held   per caller, the textures it acquired and has not released      *)
(*   pcall  the last call on the pool: its name, the caller, the texture   *)
(*          handed in or returned, whether the device was asked for a      *)
(*          texture                                                        *)
(*   phist  the number of textures the device created so far, and the      *)
(*          textures callers held when a resize changed the dimensions     *)
(***************************************************************************)
VARIABLES pool, held, pcall, phist

(***************************************************************************)
(* State of the executions of an NDIOutput (SpecNdi, SpecNdiFair below):   *)
(*   ndi    the NDIOutput object                                           *)
(*   nth    where the send task stands ("none" before start, "wait" at the *)
(*          top of its loop, "send" with a popped frame in hand, "exited") *)
(*          and the frame it has in hand; where the controller's stop()    *)
(*          stands ("idle", or "join" while it waits for the send task)    *)
(*   wire   the frames handed to the network sender, in order              *)
(*   ncall  the last push or stop call that returned: its name, the frame  *)
(*          handed in, the bool returned (<<>> for stop)                   *)
(*   nhist  the number of valid frames offered while running, the frames   *)
(*          the pushes accepted (in order), the number of frames the send  *)
(*          task popped, and whether a stop() of the running sink returned *)
(***************************************************************************)
VARIABLES ndi, nth, wire, ncall, nhist

ringVars == <<ring, out, rcall, hist, mutex_, rth>>

poolVars == <<pool, held, pcall, phist>>

ndiVars == <<ndi, nth, wire, ncall, nhist>>

\* the variables of the components other than the OutputSink
otherVars == <<ringVars, poolVars, ndiVars>>

\* the variables of the components other than the FrameRingBuffer
notRingVars == <<sinkVars, poolVars, ndiVars>>

\* the variables of the components other than the TexturePool
notPoolVars == <<sinkVars, ringVars, ndiVars>>

\* the variables of the components other than the NDIOutput
notNdiVars == <<sinkVars, ringVars, poolVars>>

vars == <<sink, call, txn, pc, frame, rd, race, ring, out, rcall, hist, mutex_, rth,
          pool, held, pcall, phist, ndi, nth, wire, ncall, nhist>>

ControlThreads == {"engine", "ui"}

Threads == ControlThreads \cup {"render"}

NoFrame == [op |-> "none", args |-> <<>>, entry |-> <<>>]

NoRead == [input |-> 0, crop |-> <<>>, blend |-> <<>>, legit |-> {}]

NoRace == [target |-> -1, commits |-> 0]

ConcInit ==
    /\ pc = [t \in Threads |-> "idle"]
    /\ frame = [t \in ControlThreads |-> NoFrame]
    /\ rd = NoRead
    /\ race = NoRace

\* the threads that call into a FrameRingBuffer
RingThreads == {"producer", "consumer"}

\* explicit FrameRingBuffer(size_t capacity = 5)
DefaultRingCapacity == 5

\* the capacities the buffer is constructed with and resized to
Capacities == 1..MaxCapacity

NoRingCall == [op |-> "FrameRingBuffer", by |-> "none", arg |-> 0, ret |-> <<>>,
               size |-> -1]

NoHist == [pushed |-> 0, fifo |-> <<>>, popped |-> <<>>, cleared |-> 0]

RingIdle == [pc |-> "idle", op |-> "none", arg |-> 0, latest |-> 0,
             ret |-> <<>>, size |-> -1, entry |-> <<>>]

\* a buffer constructed with one of the given capacities, no call made yet
RingInit(capacities) ==
    /\ ring \in {FrameRingBuffer(c) : c \in capacities}
    /\ out = [t \in RingThreads |-> NoSwitcherFrame]
    /\ rcall = NoRingCall
    /\ hist = NoHist
    /\ mutex_ = "none"
    /\ rth = [t \in RingThreads |-> RingIdle]

\* the callers of a TexturePool
Callers == {"decoder", "renderer"}

\* the (width, height) pairs a TexturePool is constructed with and resized
\* to: two that differ in width only and two that differ in height only
Dimensions == {<<1, 1>>, <<2, 1>>, <<2, 2>>}

PoolSizes == 0..MaxPoolSize

NoPoolCall == [op |-> "TexturePool", by |-> "none", tex |-> NilTexture,
               created |-> FALSE, width |-> 0, height |-> 0]

\* a pool constructed with one of the given dimensions and pool sizes, no
\* call made yet
PoolInit(dimensions, poolSizes) ==
    /\ pool \in {TexturePool(d[1], d[2], n) : d \in dimensions, n \in poolSizes}
    /\ held = [c \in Callers |-> {}]
    /\ pcall = NoPoolCall
    /\ phist = [created |-> Len(pool.available_), stale |-> {}]

\* the queue depths an NDIOutput is configured with
QueueDepths == {2, DefaultAsyncQueueSize}

NoNdiCall == [op |-> "NDIOutput", frame |-> NoSwitcherFrame, ret |-> <<>>]

\* an NDIOutput configured with one of the given queue depths, not started
NdiInit(depths) ==
    /\ ndi \in {NewNDIOutput(q) : q \in depths}
    /\ nth = [sender |-> "none", sending |-> 0, stop |-> "idle"]
    /\ wire = <<>>
    /\ ncall = NoNdiCall
    /\ nhist = [offered |-> 0, accepted |-> <<>>, popped |-> 0, stopped |-> FALSE]

\* input numbers handed to the calls
Inputs == {1, 2}

\* transition types handed to the calls (the constructor leaves Dissolve)
TypeArgs == {"Cut", "Wipe"}

Durations == -1..MaxDuration

TickDurations == 1..MaxTickDuration

ProgressArgs ==
    {0 - (F32One \div 2), 0, F32One \div 2, F32One, F32One + (F32One \div 2)}

CropArgs == {DefaultCrop, CropRegion(0, 0, 50, 100)}

BlendArgs == {<<0, 0, 0, 0, 220, 100, 0, 100, 100, 100>>,
              <<3200, 0, 0, 0, 180, 100, 0, 100, 100, 100>>}

\* the crop and edge-blend handed to the starts that stage them; the setters
\* take every value of CropArgs and BlendArgs
StagedCropArgs == {CropRegion(0, 0, 50, 100)}

StagedBlendArgs == {<<3200, 0, 0, 0, 180, 100, 0, 100, 100, 100>>}

\* what the render path reads: the three unsynchronised getters
Triple(s) == <<s.current_input_, s.current_crop_, s.current_edge_blend_>>

PendingTriple(s) == <<s.pending_input_, s.pending_crop_, s.pending_edge_blend_>>

NoTxn == [triple |-> <<>>, ticks |-> -1, pure |-> FALSE, target |-> -1,
          stale |-> FALSE]

StartOps == {"startTransition", "startTransitionWithCrop",
             "startTransitionWithCropAndBlend",
             "startTBarTransition", "startTBarTransitionWithCropAndBlend"}

AdvanceOps == {"advanceTransition", "advanceTransitionWithCrop"}

ProgressOps == AdvanceOps \cup {"setTransitionProgress"}

\* the calls that write pending_crop_ or pending_edge_blend_
StagingOps == {"setPendingCrop", "setPendingEdgeBlend", "startTransitionWithCrop",
               "startTransitionWithCropAndBlend",
               "startTBarTransitionWithCropAndBlend"}

\* the bookkeeping after call op took the sink from s to s2
TxnAfter(op, s, s2) ==
    LET started == op \in StartOps /\ s2.transition_in_progress_
        within == op \in ProgressOps \cup {"cancelTransition"}
                      /\ s.transition_in_progress_
        cancelled == op = "cancelTransition" /\ s.transition_in_progress_
    IN  [triple |-> IF started THEN Triple(s)
                    ELSE IF within THEN txn.triple ELSE <<>>,
         ticks |-> IF started THEN 0
                   ELSE IF op \in AdvanceOps /\ s.transition_in_progress_
                           /\ txn.ticks >= 0
                   THEN txn.ticks + 1 ELSE -1,
         pure |-> IF started THEN TRUE ELSE IF within THEN txn.pure ELSE FALSE,
         target |-> IF started THEN s2.pending_input_
                    ELSE IF within THEN txn.target ELSE -1,
         stale |-> IF cancelled THEN TRUE
                   ELSE IF op \in StagingOps THEN FALSE ELSE txn.stale]

Returns(op, args, s2, ret) ==
    /\ sink' = s2
    /\ call' = [op |-> op, args |-> args, ret |-> ret,
                from |-> [transitioning |-> sink.transition_in_progress_,
                          advanced |-> sink.transition_progress_ # 0]]
    /\ txn' = TxnAfter(op, sink, sink')
    /\ UNCHANGED <<concVars, otherVars>>

\* the sink after construction
SinkInit ==
    /\ sink = NewSink
    /\ call = [op |-> "OutputSink", args |-> <<>>, ret |-> <<>>,
               from |-> [transitioning |-> FALSE, advanced |-> FALSE]]
    /\ txn = NoTxn
    /\ ConcInit

\* the sink after construction, next to a FrameRingBuffer constructed with
\* its default capacity
Init ==
    /\ SinkInit
    /\ RingInit({DefaultRingCapacity})
    /\ PoolInit({<<1, 1>>}, {0})
    /\ NdiInit({DefaultAsyncQueueSize})

StartTransition(durations) ==
    \E toInput \in Inputs, type \in TypeArgs, durationFrames \in durations :
        Returns("startTransition",
                [toInput |-> toInput, type |-> type, durationFrames |-> durationFrames],
                startTransition(sink, toInput, type, durationFrames), <<>>)

StartTransitionWithCrop ==
    \E toInput \in Inputs, type \in TypeArgs, durationFrames \in Durations,
       crop \in StagedCropArgs :
        Returns("startTransitionWithCrop",
                [toInput |-> toInput, type |-> type, durationFrames |-> durationFrames,
                 crop |-> crop],
                startTransitionWithCrop(sink, toInput, type, durationFrames, crop),
                <<>>)

StartTransitionWithCropAndBlend ==
    \E toInput \in Inputs, type \in TypeArgs, durationFrames \in Durations,
       crop \in StagedCropArgs, blend \in StagedBlendArgs :
        Returns("startTransitionWithCropAndBlend",
                [toInput |-> toInput, type |-> type, durationFrames |-> durationFrames,
                 crop |-> crop, blend |-> blend],
                startTransitionWithCropAndBlend(sink, toInput, type, durationFrames,
                                                crop, blend),
                <<>>)

AdvanceTransition ==
    LET r == advanceTransition(sink)
    IN  Returns("advanceTransition", <<>>, r.s, <<r.ret>>)

AdvanceTransitionWithCrop ==
    LET r == advanceTransitionWithCrop(sink)
    IN  Returns("advanceTransitionWithCrop", <<>>, r.s, <<r.ret>>)

CancelTransition ==
    Returns("cancelTransition", <<>>, cancelTransition(sink), <<>>)

SetTransitionProgress ==
    \E progress \in ProgressArgs :
        LET r == setTransitionProgress(sink, progress)
        IN  Returns("setTransitionProgress", [progress |-> progress], r.s, <<r.ret>>)

StartTBarTransition ==
    \E toInput \in Inputs, type \in TypeArgs :
        Returns("startTBarTransition", [toInput |-> toInput, type |-> type],
                startTBarTransition(sink, toInput, type), <<>>)

StartTBarTransitionWithCropAndBlend ==
    \E toInput \in Inputs, type \in TypeArgs, crop \in StagedCropArgs, blend \in StagedBlendArgs :
        Returns("startTBarTransitionWithCropAndBlend",
                [toInput |-> toInput, type |-> type, crop |-> crop, blend |-> blend],
                startTBarTransitionWithCropAndBlend(sink, toInput, type, crop, blend),
                <<>>)

SetCrop ==
    \E crop \in CropArgs :
        Returns("setCrop", [crop |-> crop], setCrop(sink, crop), <<>>)

SetPendingCrop ==
    \E crop \in CropArgs :
        Returns("setPendingCrop", [crop |-> crop], setPendingCrop(sink, crop), <<>>)

SetEdgeBlend ==
    \E blend \in BlendArgs :
        Returns("setEdgeBlend", [blend |-> blend], setEdgeBlend(sink, blend), <<>>)

SetPendingEdgeBlend ==
    \E blend \in BlendArgs :
        Returns("setPendingEdgeBlend", [blend |-> blend],
                setPendingEdgeBlend(sink, blend), <<>>)

Next ==
    \/ StartTransition(Durations)
    \/ StartTransitionWithCrop
    \/ StartTransitionWithCropAndBlend
    \/ AdvanceTransition
    \/ AdvanceTransitionWithCrop
    \/ CancelTransition
    \/ SetTransitionProgress
    \/ StartTBarTransition
    \/ StartTBarTransitionWithCropAndBlend
    \/ SetCrop
    \/ SetPendingCrop
    \/ SetEdgeBlend
    \/ SetPendingEdgeBlend

Spec == Init /\ [][Next]_vars

(***************************************************************************)
(* The sink driven through its whole public transition interface: the      *)
(* starts, the advances, setTransitionProgress, cancelTransition and       *)
(* setTransitionDuration, which stores whatever float it is handed.  The   *)
(* engine stops advancing once the progress has left (-1, 1], which keeps  *)
(* the values within the range the binary32 model covers.                  *)
(***************************************************************************)
\* the frame counts handed to setTransitionDuration
DurationArgs == {-2, 0, 2}

SetTransitionDuration ==
    \E frames \in DurationArgs :
        Returns("setTransitionDuration", [frames |-> frames],
                setTransitionDuration(sink, frames), <<>>)

\* the progress is within the range the engine keeps advancing in
ProgressInRange(s) == F32Abs(s.transition_progress_) < F32One

ApiAdvanceTransition ==
    /\ ProgressInRange(sink)
    /\ AdvanceTransition

ApiAdvanceTransitionWithCrop ==
    /\ ProgressInRange(sink)
    /\ AdvanceTransitionWithCrop

NextApi ==
    \/ StartTransition(Durations)
    \/ StartTransitionWithCrop
    \/ StartTransitionWithCropAndBlend
    \/ StartTBarTransition
    \/ StartTBarTransitionWithCropAndBlend
    \/ ApiAdvanceTransition
    \/ ApiAdvanceTransitionWithCrop
    \/ SetTransitionProgress
    \/ CancelTransition
    \/ SetTransitionDuration

SpecApi == Init /\ [][NextApi]_vars

(***************************************************************************)
(* The same sink driven through timed transitions only, with durations up  *)
(* to MaxTickDuration frames: the engine's per-frame advance against the   *)
(* duration the transition was started with.                               *)
(***************************************************************************)
NextTicks ==
    \/ StartTransition(TickDurations)
    \/ AdvanceTransition
    \/ AdvanceTransitionWithCrop
    \/ CancelTransition
    \/ SetTransitionProgress

SpecTicks == Init /\ [][NextTicks]_vars

(***************************************************************************)
(* Threaded executions.  OutputSink holds no lock and no atomic member, so *)
(* a member function running on one thread is interleaved statement by     *)
(* statement with whatever the other threads do.  The engine thread calls  *)
(* advanceTransition every frame, the ui thread calls                      *)
(* setTransitionProgress and startTransitionWithCropAndBlend, the render   *)
(* thread reads the triple through its three getters.                      *)
(***************************************************************************)
ConcTypeArgs == {"Cut", "Wipe"}

ConcDurations == {1, 2}

ConcProgressArgs == {F32One \div 2, F32One}

Busy(t) == pc[t] # "idle"

\* calls of the control path do not overlap one another
Serial(t) == \A u \in ControlThreads \ {t} : ~Busy(u)

\* advance and setTransitionProgress may overlap each other, not a start
Overlapping(t) ==
    \A u \in ControlThreads \ {t} : frame[u].op # "startTransitionWithCropAndBlend"

\* the triple the sink held at the last moment no call was executing
StableTriple ==
    IF \E t \in ControlThreads : Busy(t)
    THEN frame[CHOOSE t \in ControlThreads : Busy(t)].entry
    ELSE Triple(sink)

Enter(t, label, op, args) ==
    /\ pc[t] = "idle"
    /\ pc' = [pc EXCEPT ![t] = label]
    /\ frame' = [frame EXCEPT ![t] = [op |-> op, args |-> args, entry |-> Triple(sink)]]

Goto(t, label) ==
    /\ pc' = [pc EXCEPT ![t] = label]
    /\ UNCHANGED frame

\* thread t returns from its call, leaving the sink as s2
Leave(t, s2) ==
    /\ pc' = [pc EXCEPT ![t] = "idle"]
    /\ frame' = [frame EXCEPT ![t] = NoFrame]
    /\ rd' = IF pc["render"] \in {"read_crop", "read_blend"} /\ Serial(t)
             THEN [rd EXCEPT !.legit = @ \cup {Triple(s2)}]
             ELSE rd

\* whether thread t may enter a call now: under a serial control path only
\* when no other control call is executing
MayBegin(t, serial) == IF serial THEN Serial(t) ELSE Overlapping(t)

CallAdvanceTransition(serial) ==
    /\ MayBegin("engine", serial)
    /\ Enter("engine", "adv_guard", "advanceTransition", <<>>)
    /\ UNCHANGED <<sink, rd, race, seqVars, otherVars>>

CallSetTransitionProgress(serial) ==
    /\ MayBegin("ui", serial)
    /\ \E progress \in ConcProgressArgs :
           Enter("ui", "prog_guard", "setTransitionProgress", [progress |-> progress])
    /\ UNCHANGED <<sink, rd, race, seqVars, otherVars>>

CallStartTransitionWithCropAndBlend ==
    /\ Serial("ui")
    /\ \E toInput \in Inputs, type \in ConcTypeArgs, durationFrames \in ConcDurations,
          crop \in CropArgs, blend \in StagedBlendArgs :
           /\ Enter("ui", "start_crop", "startTransitionWithCropAndBlend",
                    [toInput |-> toInput, type |-> type,
                     durationFrames |-> durationFrames, crop |-> crop, blend |-> blend])
           /\ race' = [target |-> toInput, commits |-> 0]
    /\ UNCHANGED <<sink, rd, seqVars, otherVars>>

\* if (!transition_in_progress_) return false;
AdvGuard(t) ==
    /\ pc[t] = "adv_guard"
    /\ IF sink.transition_in_progress_
       THEN Goto(t, "adv_step") /\ UNCHANGED rd
       ELSE Leave(t, sink)
    /\ UNCHANGED <<sink, race, seqVars, otherVars>>

\* float step = 1.0f / transition_duration_frames_; transition_progress_ += step;
AdvStep(t) ==
    /\ pc[t] = "adv_step"
    /\ sink' = [sink EXCEPT !.transition_progress_ =
                    F32Add(@, F32Recip(sink.transition_duration_frames_))]
    /\ Goto(t, "adv_test")
    /\ UNCHANGED <<rd, race, seqVars, otherVars>>

\* if (transition_progress_ >= 1.0f) { ... } return false;
AdvTest(t) ==
    /\ pc[t] = "adv_test"
    /\ IF sink.transition_progress_ >= F32One
       THEN /\ Goto(t, "commit_input")
            /\ race' = [race EXCEPT !.commits = @ + 1]
            /\ UNCHANGED rd
       ELSE Leave(t, sink) /\ UNCHANGED race
    /\ UNCHANGED <<sink, seqVars, otherVars>>

\* if (!transition_in_progress_) { return false; }
ProgGuard(t) ==
    /\ pc[t] = "prog_guard"
    /\ IF sink.transition_in_progress_
       THEN Goto(t, "prog_set") /\ UNCHANGED rd
       ELSE Leave(t, sink)
    /\ UNCHANGED <<sink, race, seqVars, otherVars>>

\* transition_progress_ = std::max(0.0f, std::min(1.0f, progress));
ProgSet(t) ==
    /\ pc[t] = "prog_set"
    /\ sink' = [sink EXCEPT !.transition_progress_ =
                    F32Max(0, F32Min(F32One, frame[t].args.progress))]
    /\ Goto(t, "prog_test")
    /\ UNCHANGED <<rd, race, seqVars, otherVars>>

\* if (transition_progress_ >= 1.0f) { ... } return true;
ProgTest(t) ==
    /\ pc[t] = "prog_test"
    /\ IF sink.transition_progress_ >= F32One
       THEN /\ Goto(t, "commit_input")
            /\ race' = [race EXCEPT !.commits = @ + 1]
            /\ UNCHANGED rd
       ELSE Leave(t, sink) /\ UNCHANGED race
    /\ UNCHANGED <<sink, seqVars, otherVars>>

\* pending_crop_ = {cropX, cropY, cropW, cropH};
StartCrop(t) ==
    /\ pc[t] = "start_crop"
    /\ sink' = [sink EXCEPT !.pending_crop_ = frame[t].args.crop]
    /\ Goto(t, "start_blend")
    /\ UNCHANGED <<rd, race, seqVars, otherVars>>

\* pending_edge_blend_ = {featherL, ..., gammaB};
StartBlend(t) ==
    /\ pc[t] = "start_blend"
    /\ sink' = [sink EXCEPT !.pending_edge_blend_ = EdgeBlend10(frame[t].args.blend)]
    /\ Goto(t, "start_test")
    /\ UNCHANGED <<rd, race, seqVars, otherVars>>

\* if (type == OutputTransitionType::Cut || durationFrames <= 0) { ... } else { ... }
StartTest(t) ==
    /\ pc[t] = "start_test"
    /\ IF frame[t].args.type = "Cut" \/ frame[t].args.durationFrames <= 0
       THEN Goto(t, "commit_input")
       ELSE Goto(t, "start_pending")
    /\ UNCHANGED <<sink, rd, race, seqVars, otherVars>>

\* pending_input_ = toInput; transition_type_ = type;
\* transition_duration_frames_ = durationFrames;
StartPending(t) ==
    /\ pc[t] = "start_pending"
    /\ sink' = [sink EXCEPT !.pending_input_ = frame[t].args.toInput,
                            !.transition_type_ = frame[t].args.type,
                            !.transition_duration_frames_ = frame[t].args.durationFrames]
    /\ Goto(t, "start_in_progress")
    /\ UNCHANGED <<rd, race, seqVars, otherVars>>

\* transition_in_progress_ = true; transition_progress_ = 0.0f;
StartInProgress(t) ==
    /\ pc[t] = "start_in_progress"
    /\ sink' = [sink EXCEPT !.transition_in_progress_ = TRUE,
                            !.transition_progress_ = 0]
    /\ Leave(t, sink')
    /\ UNCHANGED <<race, seqVars, otherVars>>

\* current_input_ = pending_input_;   (current_input_ = toInput; in the start)
CommitInput(t) ==
    /\ pc[t] = "commit_input"
    /\ sink' = [sink EXCEPT !.current_input_ =
                    IF frame[t].op = "startTransitionWithCropAndBlend"
                    THEN frame[t].args.toInput ELSE sink.pending_input_]
    /\ Goto(t, "commit_source")
    /\ UNCHANGED <<rd, race, seqVars, otherVars>>

\* direct_input_index_ = pending_input_;  (= toInput; in the start)
\* source_type_ = OutputSourceType::DirectInput;
CommitSource(t) ==
    /\ pc[t] = "commit_source"
    /\ sink' = [sink EXCEPT !.direct_input_index_ =
                    IF frame[t].op = "startTransitionWithCropAndBlend"
                    THEN frame[t].args.toInput ELSE sink.pending_input_,
                            !.source_type_ = "DirectInput"]
    /\ Goto(t, "commit_crop")
    /\ UNCHANGED <<rd, race, seqVars, otherVars>>

\* current_crop_ = pending_crop_;
CommitCrop(t) ==
    /\ pc[t] = "commit_crop"
    /\ sink' = [sink EXCEPT !.current_crop_ = sink.pending_crop_]
    /\ Goto(t, "commit_blend")
    /\ UNCHANGED <<rd, race, seqVars, otherVars>>

\* current_edge_blend_ = pending_edge_blend_;
CommitBlend(t) ==
    /\ pc[t] = "commit_blend"
    /\ sink' = [sink EXCEPT !.current_edge_blend_ = sink.pending_edge_blend_]
    /\ Goto(t, "commit_pending")
    /\ UNCHANGED <<rd, race, seqVars, otherVars>>

\* pending_input_ = -1;
CommitPending(t) ==
    /\ pc[t] = "commit_pending"
    /\ sink' = [sink EXCEPT !.pending_input_ = -1]
    /\ Goto(t, "commit_idle")
    /\ UNCHANGED <<rd, race, seqVars, otherVars>>

\* transition_in_progress_ = false; transition_progress_ = 0.0f; return
CommitIdle(t) ==
    /\ pc[t] = "commit_idle"
    /\ sink' = [sink EXCEPT !.transition_in_progress_ = FALSE,
                            !.transition_progress_ = 0]
    /\ Leave(t, sink')
    /\ UNCHANGED <<race, seqVars, otherVars>>

\* int currentInput() const { return current_input_; }
ReadInput ==
    /\ pc["render"] = "idle"
    /\ rd' = [NoRead EXCEPT !.input = sink.current_input_, !.legit = {StableTriple}]
    /\ pc' = [pc EXCEPT !["render"] = "read_crop"]
    /\ UNCHANGED <<sink, frame, race, seqVars, otherVars>>

\* const CropRegion& currentCrop() const { return current_crop_; }
ReadCrop ==
    /\ pc["render"] = "read_crop"
    /\ rd' = [rd EXCEPT !.crop = sink.current_crop_]
    /\ pc' = [pc EXCEPT !["render"] = "read_blend"]
    /\ UNCHANGED <<sink, frame, race, seqVars, otherVars>>

\* const EdgeBlendParams& currentEdgeBlend() const { return current_edge_blend_; }
ReadBlend ==
    /\ pc["render"] = "read_blend"
    /\ rd' = [rd EXCEPT !.blend = sink.current_edge_blend_]
    /\ pc' = [pc EXCEPT !["render"] = "read_done"]
    /\ UNCHANGED <<sink, frame, race, seqVars, otherVars>>

\* the frame is rendered with what was read; the next tick reads again
ReadNext ==
    /\ pc["render"] = "read_done"
    /\ rd' = NoRead
    /\ pc' = [pc EXCEPT !["render"] = "idle"]
    /\ UNCHANGED <<sink, frame, race, seqVars, otherVars>>

Statement ==
    \E t \in ControlThreads :
        \/ AdvGuard(t)
        \/ AdvStep(t)
        \/ AdvTest(t)
        \/ ProgGuard(t)
        \/ ProgSet(t)
        \/ ProgTest(t)
        \/ StartCrop(t)
        \/ StartBlend(t)
        \/ StartTest(t)
        \/ StartPending(t)
        \/ StartInProgress(t)
        \/ CommitInput(t)
        \/ CommitSource(t)
        \/ CommitCrop(t)
        \/ CommitBlend(t)
        \/ CommitPending(t)
        \/ CommitIdle(t)

\* one control path (its calls never overlap) and the render thread
NextRender ==
    \/ CallAdvanceTransition(TRUE)
    \/ CallSetTransitionProgress(TRUE)
    \/ CallStartTransitionWithCropAndBlend
    \/ Statement
    \/ ReadInput
    \/ ReadCrop
    \/ ReadBlend
    \/ ReadNext

SpecRender == Init /\ [][NextRender]_vars

\* the engine's advance and the ui's setTransitionProgress on two threads
NextRace ==
    \/ CallAdvanceTransition(FALSE)
    \/ CallSetTransitionProgress(FALSE)
    \/ CallStartTransitionWithCropAndBlend
    \/ Statement

SpecRace == Init /\ [][NextRace]_vars

(***************************************************************************)
(* The FrameRingBuffer called by one thread at a time: every call runs     *)
(* from lock to unlock before the next begins.  The producer pushes the    *)
(* frames numbered 1, 2, ... ; the consumer makes the other calls.         *)
(***************************************************************************)
\* the bookkeeping after call op returned ret on a buffer of capacity cap;
\* n is the number of the frame pushed (the capacity asked for, for resize),
\* o2 the caller's frame afterwards
HistAfter(op, cap, n, ret, o2) ==
    [pushed |-> IF op = "push" THEN hist.pushed + 1 ELSE hist.pushed,
     fifo |-> IF op = "push"
              THEN IF Len(hist.fifo) < cap THEN Append(hist.fifo, n)
                   ELSE Append(Tail(hist.fifo), n)
              ELSE IF op = "pop" /\ ret = <<TRUE>> /\ hist.fifo # <<>>
              THEN Tail(hist.fifo)
              ELSE IF op \in {"clear", "resize"} THEN <<>>
              ELSE hist.fifo,
     popped |-> IF op = "pop" /\ ret = <<TRUE>>
                THEN Append(hist.popped, o2.frame_number)
                ELSE hist.popped,
     cleared |-> IF op \in {"clear", "resize"} THEN hist.pushed ELSE hist.cleared]

RingReturns(t, op, n, b2, o2, ret, size) ==
    /\ ring' = b2
    /\ out' = [out EXCEPT ![t] = o2]
    /\ rcall' = [op |-> op, by |-> t, arg |-> n, ret |-> ret, size |-> size]
    /\ hist' = HistAfter(op, ring.capacity_, n, ret, o2)
    /\ UNCHANGED <<mutex_, rth, notRingVars>>

RingPush(t) ==
    /\ hist.pushed < MaxPushes
    /\ LET n == hist.pushed + 1
           r == FrameRingBuffer_push(ring, SwitcherFrame(n))
       IN  RingReturns(t, "push", n, r.b, out[t], <<r.ret>>, -1)

RingPeekLatest(t) ==
    LET r == FrameRingBuffer_peekLatest(ring, out[t])
    IN  RingReturns(t, "peekLatest", 0, r.b, r.out, <<r.ret>>, -1)

RingPop(t) ==
    LET r == FrameRingBuffer_pop(ring, out[t])
    IN  RingReturns(t, "pop", 0, r.b, r.out, <<r.ret>>, -1)

RingSize(t) ==
    RingReturns(t, "size", 0, ring, out[t], <<>>, FrameRingBuffer_size(ring))

RingClear(t) ==
    RingReturns(t, "clear", 0, FrameRingBuffer_clear(ring), out[t], <<>>, -1)

RingResize(t) ==
    \E capacity \in Capacities :
        RingReturns(t, "resize", capacity, FrameRingBuffer_resize(ring, capacity),
                    out[t], <<>>, -1)

InitRing ==
    /\ SinkInit
    /\ RingInit(Capacities)
    /\ PoolInit({<<1, 1>>}, {0})
    /\ NdiInit({DefaultAsyncQueueSize})

NextRing ==
    \/ RingPush("producer")
    \/ RingPeekLatest("consumer")
    \/ RingPop("consumer")
    \/ RingSize("consumer")
    \/ RingClear("consumer")
    \/ RingResize("consumer")

SpecRing == InitRing /\ [][NextRing]_vars

(***************************************************************************)
(* The FrameRingBuffer called by a producer thread and a consumer thread   *)
(* at once.  Every member function begins with                             *)
(* std::lock_guard<std::mutex> lock(mutex_) and then runs one statement at *)
(* a time; the guard's destructor unlocks on return.                       *)
(***************************************************************************)
\* a lock_guard that never waits
CanLock_Always(m) == TRUE

\* std::mutex::lock returns once no thread holds the mutex
CanLock(m) == m = "none"

RingGoto(t, label) ==
    rth' = [rth EXCEPT ![t].pc = label]

\* thread t calls the member function op
RingBegin(t, op, arg) ==
    /\ rth[t].pc = "idle"
    /\ rth' = [rth EXCEPT ![t] = [RingIdle EXCEPT !.pc = "lock", !.op = op,
                                                  !.arg = arg]]
    /\ UNCHANGED <<ring, out, rcall, hist, mutex_, notRingVars>>

CallPush(t) ==
    /\ hist.pushed < MaxPushes
    /\ RingBegin(t, "push", hist.pushed + 1)

CallPeekLatest(t) == RingBegin(t, "peekLatest", 0)

CallPop(t) == RingBegin(t, "pop", 0)

CallSize(t) == RingBegin(t, "size", 0)

\* std::lock_guard<std::mutex> lock(mutex_);
RingLock(t) ==
    /\ rth[t].pc = "lock"
    /\ CanLock(mutex_)
    /\ mutex_' = t
    /\ rth' = [rth EXCEPT ![t].pc = rth[t].op, ![t].entry = <<ring, out[t]>>]
    /\ UNCHANGED <<ring, out, rcall, hist, notRingVars>>

\* frames_[write_idx_] = frame;
PushStore(t) ==
    /\ rth[t].pc = "push"
    /\ ring' = [ring EXCEPT !.frames_[ring.write_idx_] = SwitcherFrame(rth[t].arg)]
    /\ RingGoto(t, "push_widx")
    /\ UNCHANGED <<out, rcall, hist, mutex_, notRingVars>>

\* write_idx_ = (write_idx_ + 1) % capacity_;
PushWriteIdx(t) ==
    /\ rth[t].pc = "push_widx"
    /\ ring' = [ring EXCEPT !.write_idx_ = (ring.write_idx_ + 1) % ring.capacity_]
    /\ RingGoto(t, "push_count")
    /\ UNCHANGED <<out, rcall, hist, mutex_, notRingVars>>

\* if (count_ < capacity_) { count_++; } else { read_idx_ = ...; } return true;
PushCount(t) ==
    /\ rth[t].pc = "push_count"
    /\ ring' = IF ring.count_ < ring.capacity_
               THEN [ring EXCEPT !.count_ = ring.count_ + 1]
               ELSE [ring EXCEPT !.read_idx_ = (ring.read_idx_ + 1) % ring.capacity_]
    /\ rth' = [rth EXCEPT ![t].pc = "unlock", ![t].ret = <<TRUE>>]
    /\ UNCHANGED <<out, rcall, hist, mutex_, notRingVars>>

\* if (count_ == 0) return false;
PeekTest(t) ==
    /\ rth[t].pc = "peekLatest"
    /\ rth' = IF ring.count_ = 0
              THEN [rth EXCEPT ![t].pc = "unlock", ![t].ret = <<FALSE>>]
              ELSE [rth EXCEPT ![t].pc = "peek_latest"]
    /\ UNCHANGED <<ring, out, rcall, hist, mutex_, notRingVars>>

\* size_t latest = (write_idx_ + capacity_ - 1) % capacity_;
PeekIndex(t) ==
    /\ rth[t].pc = "peek_latest"
    /\ rth' = [rth EXCEPT ![t].pc = "peek_copy",
                          ![t].latest = (ring.write_idx_ + ring.capacity_ - 1)
                                            % ring.capacity_]
    /\ UNCHANGED <<ring, out, rcall, hist, mutex_, notRingVars>>

\* out = frames_[latest]; return true;
PeekCopy(t) ==
    /\ rth[t].pc = "peek_copy"
    /\ out' = [out EXCEPT ![t] = ring.frames_[rth[t].latest]]
    /\ rth' = [rth EXCEPT ![t].pc = "unlock", ![t].ret = <<TRUE>>]
    /\ UNCHANGED <<ring, rcall, hist, mutex_, notRingVars>>

\* if (count_ == 0) return false;
PopTest(t) ==
    /\ rth[t].pc = "pop"
    /\ rth' = IF ring.count_ = 0
              THEN [rth EXCEPT ![t].pc = "unlock", ![t].ret = <<FALSE>>]
              ELSE [rth EXCEPT ![t].pc = "pop_copy"]
    /\ UNCHANGED <<ring, out, rcall, hist, mutex_, notRingVars>>

\* out = frames_[read_idx_];
PopCopy(t) ==
    /\ rth[t].pc = "pop_copy"
    /\ out' = [out EXCEPT ![t] = ring.frames_[ring.read_idx_]]
    /\ RingGoto(t, "pop_ridx")
    /\ UNCHANGED <<ring, rcall, hist, mutex_, notRingVars>>

\* read_idx_ = (read_idx_ + 1) % capacity_;
PopReadIdx(t) ==
    /\ rth[t].pc = "pop_ridx"
    /\ ring' = [ring EXCEPT !.read_idx_ = (ring.read_idx_ + 1) % ring.capacity_]
    /\ RingGoto(t, "pop_count")
    /\ UNCHANGED <<out, rcall, hist, mutex_, notRingVars>>

\* count_--; return true;
PopCount(t) ==
    /\ rth[t].pc = "pop_count"
    /\ ring' = [ring EXCEPT !.count_ = ring.count_ - 1]
    /\ rth' = [rth EXCEPT ![t].pc = "unlock", ![t].ret = <<TRUE>>]
    /\ UNCHANGED <<out, rcall, hist, mutex_, notRingVars>>

\* return count_;
SizeRead(t) ==
    /\ rth[t].pc = "size"
    /\ rth' = [rth EXCEPT ![t].pc = "unlock", ![t].size = ring.count_]
    /\ UNCHANGED <<ring, out, rcall, hist, mutex_, notRingVars>>

\* the lock_guard goes out of scope and the call returns
RingUnlock(t) ==
    /\ rth[t].pc = "unlock"
    /\ mutex_' = "none"
    /\ rcall' = [op |-> rth[t].op, by |-> t, arg |-> rth[t].arg, ret |-> rth[t].ret,
                 size |-> rth[t].size]
    /\ hist' = HistAfter(rth[t].op, ring.capacity_, rth[t].arg, rth[t].ret, out[t])
    /\ rth' = [rth EXCEPT ![t] = RingIdle]
    /\ UNCHANGED <<ring, out, notRingVars>>

RingStatement ==
    \E t \in RingThreads :
        \/ RingLock(t)
        \/ PushStore(t) \/ PushWriteIdx(t) \/ PushCount(t)
        \/ PeekTest(t) \/ PeekIndex(t) \/ PeekCopy(t)
        \/ PopTest(t) \/ PopCopy(t) \/ PopReadIdx(t) \/ PopCount(t)
        \/ SizeRead(t)
        \/ RingUnlock(t)

NextRingThreads ==
    \/ CallPush("producer")
    \/ CallPeekLatest("consumer")
    \/ CallPop("consumer")
    \/ CallSize("consumer")
    \/ RingStatement

SpecRingThreads == InitRing /\ [][NextRingThreads]_vars

(***************************************************************************)
(* The TexturePool called by its callers, one call at a time (every member *)
(* function holds mutex_ for its whole body).  A caller releases only      *)
(* textures it holds, or nil, and gives up the texture it releases; the    *)
(* renderer is the one that changes the format.                            *)
(***************************************************************************)
\* the textures in a sequence
Range(seq) == {seq[i] : i \in DOMAIN seq}

PoolReturns(c, op, p2, held2, tex, created, width, height) ==
    /\ pool' = p2
    /\ held' = held2
    /\ pcall' = [op |-> op, by |-> c, tex |-> tex, created |-> created,
                 width |-> width, height |-> height]
    /\ phist' = [created |-> IF created THEN phist.created + 1 ELSE phist.created,
                 stale |-> IF op = "resize" /\ (width # pool.width_ \/ height # pool.height_)
                           THEN phist.stale \cup UNION {held[k] : k \in Callers}
                           ELSE IF op = "release" THEN phist.stale \ {tex}
                           ELSE phist.stale]
    /\ UNCHANGED notPoolVars

PoolAcquire(c) ==
    /\ pool.available_ # <<>> \/ phist.created < MaxTextures
    /\ LET r == TexturePool_acquire(pool, phist.created + 1)
       IN  PoolReturns(c, "acquire", r.p, [held EXCEPT ![c] = held[c] \cup {r.tex}],
                       r.tex, r.created, 0, 0)

PoolRelease(c) ==
    \E texture \in held[c] :
        PoolReturns(c, "release", TexturePool_release(pool, texture),
                    [held EXCEPT ![c] = held[c] \ {texture}], texture, FALSE, 0, 0)

PoolReleaseNil(c) ==
    PoolReturns(c, "release", TexturePool_release(pool, NilTexture), held,
                NilTexture, FALSE, 0, 0)

PoolResize(c) ==
    \E d \in Dimensions :
        PoolReturns(c, "resize", TexturePool_resize(pool, d[1], d[2]), held,
                    NilTexture, FALSE, d[1], d[2])

InitPool ==
    /\ SinkInit
    /\ RingInit({DefaultRingCapacity})
    /\ PoolInit(Dimensions, PoolSizes)
    /\ NdiInit({DefaultAsyncQueueSize})

NextPool ==
    \/ \E c \in Callers : PoolAcquire(c)
    \/ \E c \in Callers : PoolRelease(c)
    \/ PoolReleaseNil("decoder")
    \/ PoolResize("renderer")

SpecPool == InitPool /\ [][NextPool]_vars

(***************************************************************************)
(* An NDIOutput between its controller (start, stop), the engine that      *)
(* pushes frames and its send task.  A push is one step under queue_mutex_ *)
(* and never waits; the send task takes one step to leave or to pop, and   *)
(* one to send; stop() takes one step to signal and one to return once the *)
(* send task is joined.  The sink is started once.                         *)
(***************************************************************************)
\* a stop() that does not wait for the send task
SendThreadJoined_Detached(th) == TRUE

\* send_thread_.join() returns once sendLoop has returned
SendThreadJoined(th) == th.sender = "exited"

NdiPushOps == {"pushFrame", "pushPixelData"}

\* a call returns: the object and the history are updated
NdiReturns(op, f, n2, ret, offered, stopped) ==
    /\ ndi' = n2
    /\ ncall' = [op |-> op, frame |-> f, ret |-> ret]
    /\ nhist' = [nhist EXCEPT !.offered = nhist.offered + (IF offered THEN 1 ELSE 0),
                              !.accepted = IF op \in NdiPushOps /\ ret = <<TRUE>>
                                           THEN Append(nhist.accepted, f.frame_number)
                                           ELSE nhist.accepted,
                              !.stopped = nhist.stopped \/ stopped]
    /\ UNCHANGED notNdiVars

NdiStart ==
    /\ nth.sender = "none"
    /\ nth.stop = "idle"
    /\ ~ndi.running_
    /\ nth' = [nth EXCEPT !.sender = "wait"]
    /\ wire' = wire
    /\ NdiReturns("start", NoSwitcherFrame, NDIOutput_start(ndi), <<TRUE>>, FALSE, FALSE)

\* the engine pushes the next frame of its source, or an invalid one
NdiPush(op) ==
    \E valid \in BOOLEAN :
        LET f == IF valid THEN SwitcherFrame(nhist.offered + 1) ELSE NoSwitcherFrame
            r == IF op = "pushFrame" THEN NDIOutput_pushFrame(ndi, f)
                                     ELSE NDIOutput_pushPixelData(ndi, f)
        IN  /\ nhist.offered < MaxOffered
            /\ UNCHANGED <<nth, wire>>
            /\ NdiReturns(op, f, r.n, <<r.ret>>, ndi.running_ /\ valid, FALSE)

SendLoopExit ==
    /\ nth.sender = "wait"
    /\ NDIOutput_sendLoopExits(ndi)
    /\ nth' = [nth EXCEPT !.sender = "exited"]
    /\ UNCHANGED <<ndi, wire, ncall, nhist, notNdiVars>>

SendLoopPop ==
    /\ nth.sender = "wait"
    /\ ~NDIOutput_sendLoopExits(ndi)
    /\ ndi.pixel_queue_ # <<>>
    /\ LET r == NDIOutput_sendLoopPop(ndi)
       IN  /\ ndi' = r.n
           /\ nth' = [nth EXCEPT !.sender = "send", !.sending = r.frame]
    /\ nhist' = [nhist EXCEPT !.popped = nhist.popped + 1]
    /\ UNCHANGED <<wire, ncall, notNdiVars>>

SendLoopSend ==
    /\ nth.sender = "send"
    /\ wire' = Append(wire, nth.sending)
    /\ ndi' = NDIOutput_sendLoopSent(ndi)
    /\ nth' = [nth EXCEPT !.sender = "wait", !.sending = 0]
    /\ UNCHANGED <<ncall, nhist, notNdiVars>>

\* stop() is called: a sink that is not running is left alone
NdiStop ==
    /\ nth.stop = "idle"
    /\ IF ~ndi.running_
       THEN /\ UNCHANGED <<nth, wire>>
            /\ NdiReturns("stop", NoSwitcherFrame, ndi, <<>>, FALSE, FALSE)
       ELSE /\ ndi' = NDIOutput_stopSignal(ndi)
            /\ nth' = [nth EXCEPT !.stop = "join"]
            /\ UNCHANGED <<wire, ncall, nhist, notNdiVars>>

\* send_thread_.join() returns and stop() with it
NdiStopJoin ==
    /\ nth.stop = "join"
    /\ SendThreadJoined(nth)
    /\ nth' = [nth EXCEPT !.stop = "idle"]
    /\ wire' = wire
    /\ NdiReturns("stop", NoSwitcherFrame, NDIOutput_stopJoined(ndi), <<>>, FALSE, TRUE)

InitNdi ==
    /\ SinkInit
    /\ RingInit({DefaultRingCapacity})
    /\ PoolInit({<<1, 1>>}, {0})
    /\ NdiInit(QueueDepths)

NextNdi ==
    \/ NdiStart
    \/ \E op \in NdiPushOps : NdiPush(op)
    \/ SendLoopExit
    \/ SendLoopPop
    \/ SendLoopSend
    \/ NdiStop
    \/ NdiStopJoin

SpecNdi == InitNdi /\ [][NextNdi]_vars

\* the send task is scheduled, a send returns, and so does join() once the
\* task has left
SpecNdiFair ==
    /\ SpecNdi
    /\ WF_vars(SendLoopExit)
    /\ WF_vars(SendLoopPop)
    /\ WF_vars(SendLoopSend)
    /\ WF_vars(NdiStopJoin)

(***************************************************************************)
(* Properties.                                                             *)
(***************************************************************************)
TimedStartOps == {"startTransition", "startTransitionWithCrop",
                  "startTransitionWithCropAndBlend"}

\* the last call was a timed start that takes the instant-cut branch
ImmediateStart(c) ==
    /\ c.op \in TimedStartOps
    /\ (c.args.type = "Cut" \/ c.args.durationFrames <= 0)

\* the last call was a timed start that begins a transition
DeferredStart(c) ==
    /\ c.op \in TimedStartOps
    /\ c.args.type # "Cut"
    /\ c.args.durationFrames > 0

\* the step from (s, .) to (s2, c) is a commit made by advance or
\* setTransitionProgress
CommitStep(s, c, s2) ==
    /\ c.op \in ProgressOps
    /\ s.transition_in_progress_
    /\ ~s2.transition_in_progress_

\* C1: a render-path read of (current input, current crop, current
\* edge-blend) that overlaps control-path calls returns a triple the sink
\* held between calls - all three values from before a commit or all three
\* from after it, never a mixture.
C1_NoMixedTriple ==
    pc["render"] = "read_done" => <<rd.input, rd.crop, rd.blend>> \in rd.legit

\* C2: whatever the interleaving of advanceTransition on the engine thread
\* and setTransitionProgress on the ui thread during one transition, its
\* commit block is entered at most once, and once the calls have returned
\* after a commit the current input is the input the transition was started
\* towards (not the cleared pending value -1).
C2_CommittedExactlyOnce ==
    /\ race.commits <= 1
    /\ (race.commits >= 1 /\ \A t \in ControlThreads : ~Busy(t))
           => sink.current_input_ = race.target

\* C3: a timed start with type Cut or a duration <= 0, made while idle or
\* while transitioning, returns with no transition in progress, progress 0
\* and the current input equal to its target.
C3_ImmediateCommit ==
    ImmediateStart(call) =>
        /\ ~sink.transition_in_progress_
        /\ sink.transition_progress_ = 0
        /\ sink.current_input_ = call.args.toInput

\* a non-Cut start with a negative duration, made after a running transition
\* had advanced, left the sink idle on its target
C3_Witness ==
    /\ call.op = "startTransitionWithCrop"
    /\ call.args.type = "Wipe"
    /\ call.args.durationFrames = -1
    /\ call.from.transitioning
    /\ call.from.advanced
    /\ ~sink.transition_in_progress_
    /\ sink.transition_progress_ = 0
    /\ sink.current_input_ = call.args.toInput

\* C4: an immediate commit by any of the three timed starts replaces the
\* whole triple: afterwards the current crop is the pending crop, the
\* current edge-blend is the pending edge-blend and the current input is the
\* target.
C4_ImmediateCommitWholeTriple ==
    ImmediateStart(call) =>
        /\ sink.current_input_ = call.args.toInput
        /\ sink.current_crop_ = sink.pending_crop_
        /\ sink.current_edge_blend_ = sink.pending_edge_blend_

\* C5: a timed start with a non-Cut type and a duration > 0 leaves the sink
\* transitioning at progress 0 with the target, type and duration recorded,
\* and does not change the current input, crop or edge-blend.
C5_DeferredStart ==
    [][DeferredStart(call') =>
          /\ sink'.transition_in_progress_
          /\ sink'.transition_progress_ = 0
          /\ sink'.pending_input_ = call'.args.toInput
          /\ sink'.transition_type_ = call'.args.type
          /\ sink'.transition_duration_frames_ = call'.args.durationFrames
          /\ Triple(sink') = Triple(sink)]_vars

\* a deferred start staged a crop and an edge-blend that differ from the
\* current ones, towards an input other than the current one
C5_Witness ==
    /\ call.op = "startTransitionWithCropAndBlend"
    /\ DeferredStart(call)
    /\ sink.transition_in_progress_
    /\ sink.pending_input_ = call.args.toInput
    /\ sink.current_input_ # sink.pending_input_
    /\ sink.current_crop_ # sink.pending_crop_
    /\ sink.current_edge_blend_ # sink.pending_edge_blend_

\* C6: after a deferred start with a duration of D whole frames, followed by
\* advance calls only, each of the first D-1 calls returns false with the
\* sink still transitioning and the current input unchanged, and the D-th
\* returns true with the current input equal to the target and the sink idle.
C6_CompletesAfterDTicks ==
    (call.op \in AdvanceOps /\ txn.ticks >= 1) =>
        LET D == sink.transition_duration_frames_
        IN  /\ txn.ticks <= D
            /\ txn.ticks < D =>
                   /\ call.ret = <<FALSE>>
                   /\ sink.transition_in_progress_
                   /\ sink.current_input_ = txn.triple[1]
            /\ txn.ticks = D =>
                   /\ call.ret = <<TRUE>>
                   /\ ~sink.transition_in_progress_
                   /\ sink.current_input_ = txn.target

\* C7: a commit made by advanceTransition, advanceTransitionWithCrop or
\* setTransitionProgress makes the current input, crop and edge-blend the
\* pending ones, clears the pending input and resets progress; and
\* advanceTransition and advanceTransitionWithCrop agree on every state the
\* sink reaches.
C7_CommitTakesPending ==
    [][/\ CommitStep(sink, call', sink') =>
              /\ Triple(sink') = PendingTriple(sink)
              /\ sink'.pending_input_ = -1
              /\ sink'.transition_progress_ = 0
              /\ call'.ret = <<TRUE>>
       /\ advanceTransition(sink) = advanceTransitionWithCrop(sink)
       /\ advanceTransition(sink') = advanceTransitionWithCrop(sink')]_vars

\* an advance completed a transition whose staged crop and edge-blend were
\* not the defaults
C7_Witness ==
    /\ call.op = "advanceTransition"
    /\ call.ret = <<TRUE>>
    /\ call.from.transitioning
    /\ ~sink.transition_in_progress_
    /\ sink.current_input_ = txn.target
    /\ sink.current_crop_ # DefaultCrop
    /\ sink.current_edge_blend_ # DefaultEdgeBlend
    /\ sink.pending_input_ = -1

\* C8: cancelTransition made while transitioning, after nothing but advance
\* and setTransitionProgress calls since the start, leaves the sink idle at
\* progress 0 with the current input, crop and edge-blend it had when the
\* transition was started.
C8_CancelKeepsCurrent ==
    [][(call'.op = "cancelTransition" /\ sink.transition_in_progress_ /\ txn.pure) =>
          /\ ~sink'.transition_in_progress_
          /\ sink'.transition_progress_ = 0
          /\ Triple(sink') = txn.triple]_vars

\* a transition with a staged crop was cancelled after it had advanced
C8_Witness ==
    /\ call.op = "cancelTransition"
    /\ call.from.transitioning
    /\ call.from.advanced
    /\ txn.pure
    /\ Triple(sink) = txn.triple
    /\ sink.current_crop_ # sink.pending_crop_
    /\ ~sink.transition_in_progress_

\* C9: cancelTransition discards what was pending: it clears the pending
\* input, and a commit of a later transition for which no crop or edge-blend
\* was staged does not bring in the crop or edge-blend left over from the
\* cancelled one.
C9_CancelDiscardsStaged ==
    [][/\ (call'.op = "cancelTransition" /\ sink.transition_in_progress_)
              => sink'.pending_input_ = -1
       /\ (CommitStep(sink, call', sink') /\ txn.stale) =>
              /\ sink'.current_crop_ = sink.current_crop_
              /\ sink'.current_edge_blend_ = sink.current_edge_blend_]_vars

\* C10: advanceTransition, advanceTransitionWithCrop and
\* setTransitionProgress called with no transition in progress return false
\* and leave every member of the sink as it was.
C10_IdleNoOp ==
    [][(call'.op \in ProgressOps /\ ~sink.transition_in_progress_) =>
          /\ call'.ret = <<FALSE>>
          /\ sink' = sink]_vars

\* setTransitionProgress(1.0) was refused on an idle sink that shows an input
\* and holds a staged crop
C10_Witness ==
    /\ call.op = "setTransitionProgress"
    /\ call.args.progress = F32One
    /\ ~call.from.transitioning
    /\ call.ret = <<FALSE>>
    /\ ~sink.transition_in_progress_
    /\ sink.current_input_ # -1
    /\ sink.current_crop_ # sink.pending_crop_

\* the calls that start a manually controlled (T-bar) transition
TBarStartOps == {"startTBarTransition", "startTBarTransitionWithCropAndBlend"}

\* the calls of the transition machine
TransitionOps == StartOps \cup ProgressOps \cup {"cancelTransition"}

\* the source assignment: what setSourceType, setScreenIndex,
\* setDirectInputIndex, setLegacyBusMode and disableSource write
SourceAssignment(s) == <<s.source_type_, s.screen_index_, s.direct_input_index_>>

\* advanceTransition passes its guard with a zero transition_duration_frames_
\* and so evaluates 1.0f / 0.0f
DividesByZero(s) ==
    /\ s.transition_in_progress_
    /\ s.transition_duration_frames_ = 0

\* C11: setTransitionProgress(p) made while transitioning returns true; for
\* p < 1 only the progress changes and becomes max(0, p), the sink stays
\* transitioning and the current triple is untouched; for p >= 1 the sink
\* ends up exactly as a completing advanceTransition leaves it.
C11_ProgressClampedOrCommitted ==
    [][(call'.op = "setTransitionProgress" /\ sink.transition_in_progress_) =>
          /\ call'.ret = <<TRUE>>
          /\ call'.args.progress < F32One =>
                 sink' = [sink EXCEPT !.transition_progress_ =
                                          F32Max(0, call'.args.progress)]
          /\ call'.args.progress >= F32One =>
                 sink' = advanceTransition(
                             [sink EXCEPT !.transition_progress_ = F32One]).s]_vars

\* setTransitionProgress(-0.5) was made on a transition that had already
\* moved off 0 and put it back to progress 0, still transitioning
C11_Witness ==
    /\ call.op = "setTransitionProgress"
    /\ call.args.progress < 0
    /\ call.ret = <<TRUE>>
    /\ call.from.transitioning
    /\ call.from.advanced
    /\ sink.transition_in_progress_
    /\ sink.transition_progress_ = 0
    /\ sink.current_input_ # sink.pending_input_

\* C12: an advance call that follows a setTransitionProgress(p), p < 1, of
\* the same transition neither changes the progress nor commits.
C12_ManualOverridesAdvance ==
    [][(/\ call.op = "setTransitionProgress"
        /\ call.from.transitioning
        /\ sink.transition_in_progress_
        /\ call'.op \in AdvanceOps) =>
          /\ sink'.transition_progress_ = sink.transition_progress_
          /\ sink'.transition_in_progress_
          /\ call'.ret = <<FALSE>>]_vars

\* C13: an advance call that follows startTBarTransition or
\* startTBarTransitionWithCropAndBlend leaves the transition as it was: same
\* progress, still transitioning, same current triple.
C13_TBarHasNoAutoAdvance ==
    [][(call.op \in TBarStartOps /\ call'.op \in AdvanceOps) =>
          /\ sink'.transition_progress_ = sink.transition_progress_
          /\ sink'.transition_in_progress_
          /\ Triple(sink') = Triple(sink)
          /\ call'.ret = <<FALSE>>]_vars

\* C14: no advance call gets past its guard with a duration of 0, that is,
\* none evaluates 1.0f / 0.0f.
C14_NoDivisionByZero ==
    [][call'.op \in AdvanceOps => ~DividesByZero(sink)]_vars

\* C15: setCrop and setEdgeBlend made while a transition is in flight leave
\* the current (input, crop, edge-blend) triple as it was.
C15_SettersSpareCurrentInFlight ==
    [][(call'.op \in {"setCrop", "setEdgeBlend"} /\ sink.transition_in_progress_) =>
          Triple(sink') = Triple(sink)]_vars

\* C16: no call of the transition machine (the starts, the advances,
\* setTransitionProgress, cancelTransition) changes the source type, the
\* screen index or the direct-input index.
C16_TransitionsSpareSource ==
    [][call'.op \in TransitionOps =>
          SourceAssignment(sink') = SourceAssignment(sink)]_vars

\* the frames a buffer holds, as frame numbers, oldest first: the count_
\* slots from read_idx_ on
Contents(b) ==
    [i \in 1..b.count_ |->
        b.frames_[(b.read_idx_ + i - 1) % b.capacity_].frame_number]

\* C17: whatever push, pop, peekLatest, clear (and size, resize) calls were
\* made on a buffer of capacity C >= 1, size() lies between 0 and C, and so
\* does every value size() returned.
C17_SizeWithinCapacity ==
    /\ ring.capacity_ >= 1
    /\ FrameRingBuffer_size(ring) \in 0..ring.capacity_
    /\ rcall.op = "size" => rcall.size \in 0..ring.capacity_

\* a push into a full buffer overwrote the oldest frame and left the size at
\* the capacity
C17_Witness ==
    /\ rcall.op = "push"
    /\ hist.pushed > ring.capacity_
    /\ Len(hist.fifo) = ring.capacity_
    /\ hist.fifo[1] > 1
    /\ FrameRingBuffer_size(ring) = ring.capacity_

\* C18: the buffer always holds, oldest first, exactly the frames pushed and
\* neither popped nor overwritten (at most the last C pushes); a successful
\* pop hands out the oldest of them and a successful peekLatest the newest,
\* leaving the buffer as it was.
C18_BoundedFifo ==
    [][/\ Contents(ring') = hist'.fifo
       /\ (rcall'.op = "pop" /\ rcall'.ret = <<TRUE>>) =>
              /\ hist.fifo # <<>>
              /\ out'[rcall'.by] = SwitcherFrame(Head(hist.fifo))
       /\ (rcall'.op = "peekLatest" /\ rcall'.ret = <<TRUE>>) =>
              /\ hist.fifo # <<>>
              /\ out'[rcall'.by] = SwitcherFrame(hist.fifo[Len(hist.fifo)])
              /\ ring' = ring]_vars

\* frames 1..5 went into a buffer of capacity 3 and three pops then handed
\* out 3, 4, 5, leaving the buffer empty
C18_Witness ==
    /\ ring.capacity_ = 3
    /\ hist.pushed = 5
    /\ hist.popped = <<3, 4, 5>>
    /\ rcall.op = "pop"
    /\ rcall.ret = <<TRUE>>
    /\ out["consumer"] = SwitcherFrame(5)
    /\ FrameRingBuffer_empty(ring)

\* C19: push returns true at every fill level; pop and peekLatest return
\* false exactly when the buffer is empty, and then leave the buffer and the
\* caller's frame as they were.
C19_FailsIffEmpty ==
    [][/\ rcall'.op = "push" => rcall'.ret = <<TRUE>>
       /\ rcall'.op \in {"pop", "peekLatest"} =>
              /\ rcall'.ret = <<FALSE>> <=> FrameRingBuffer_empty(ring)
              /\ rcall'.ret = <<FALSE>> =>
                     /\ ring' = ring
                     /\ out' = out]_vars

\* peekLatest failed on a buffer that had been emptied by pops, the
\* consumer's frame still being the last one it popped
C19_Witness ==
    /\ rcall.op = "peekLatest"
    /\ rcall.ret = <<FALSE>>
    /\ hist.popped # <<>>
    /\ out["consumer"] = SwitcherFrame(hist.popped[Len(hist.popped)])
    /\ FrameRingBuffer_empty(ring)
    /\ ring.write_idx_ # 0

\* what the call thread t is in yields when it runs alone on the buffer and
\* the out frame it found when it took the lock
RingAtomic(t) ==
    LET c == rth[t]
        b == c.entry[1]
        o == c.entry[2]
    IN  CASE c.op = "push" ->
                 LET r == FrameRingBuffer_push(b, SwitcherFrame(c.arg))
                 IN  [b |-> r.b, out |-> o, ret |-> <<r.ret>>, size |-> -1]
          [] c.op = "peekLatest" ->
                 LET r == FrameRingBuffer_peekLatest(b, o)
                 IN  [b |-> r.b, out |-> r.out, ret |-> <<r.ret>>, size |-> -1]
          [] c.op = "pop" ->
                 LET r == FrameRingBuffer_pop(b, o)
                 IN  [b |-> r.b, out |-> r.out, ret |-> <<r.ret>>, size |-> -1]
          [] OTHER ->
                 [b |-> b, out |-> o, ret |-> <<>>, size |-> FrameRingBuffer_size(b)]

\* C20: with the producer and the consumer calling at once, every call
\* leaves the buffer, the caller's frame and its return value as the same
\* call made alone on the buffer as it was when the call took the lock; no
\* frame number is popped twice, every popped frame was pushed, and size
\* stays between 0 and the capacity.
C20_CallsAreAtomic ==
    /\ \A t \in RingThreads :
           rth[t].pc = "unlock" =>
               /\ ring = RingAtomic(t).b
               /\ out[t] = RingAtomic(t).out
               /\ rth[t].ret = RingAtomic(t).ret
               /\ rth[t].size = RingAtomic(t).size
    /\ \A i, j \in DOMAIN hist.popped :
           i # j => hist.popped[i] # hist.popped[j]
    /\ \A i \in DOMAIN hist.popped : hist.popped[i] \in 1..hist.pushed
    /\ ring.count_ \in 0..ring.capacity_
    /\ rcall.op = "size" => rcall.size \in 0..ring.capacity_

\* the consumer completed a second pop while the producer, in the middle of
\* a push call, was waiting for the mutex
C20_Witness ==
    /\ rth["consumer"].pc = "unlock"
    /\ rth["consumer"].op = "pop"
    /\ rth["consumer"].ret = <<TRUE>>
    /\ hist.popped # <<>>
    /\ mutex_ = "consumer"
    /\ rth["producer"].pc = "lock"
    /\ rth["producer"].op = "push"

\* texture tex has the dimensions pool p is configured with
Matches(tex, p) == tex.width = p.width_ /\ tex.height = p.height_

C23_ReuseBeforeCreate ==
    [][pcall'.op = "acquire" =>
          /\ pcall'.created <=> pool.available_ = <<>>
          /\ ~pcall'.created => pcall'.tex \in Range(pool.available_)
          /\ phist'.created = phist.created + (IF pool.available_ = <<>> THEN 1 ELSE 0)
          /\ (pcall.op = "release" /\ pcall.tex # NilTexture /\ Matches(pcall.tex, pool)) =>
                 /\ pcall'.tex = pcall.tex
                 /\ ~pcall'.created]_vars

\* the renderer got back, without a new texture being created, a texture
\* that the device had created on demand and that was released since
C23_Witness ==
    /\ pcall.op = "acquire"
    /\ pcall.by = "renderer"
    /\ ~pcall.created
    /\ pcall.tex.id > MaxPoolSize
    /\ pool.available_ = <<>>
    /\ held["decoder"] = {}

\* C24 as stated: release puts a texture into available_ only if it is not
\* nil and matches the configuration, otherwise it changes nothing; and a
\* texture that a caller held when a resize changed the dimensions is not
\* put into available_ by its release.
C24_StaleNeverRecycled ==
    [][pcall'.op = "release" =>
          /\ pool'.width_ = pool.width_ /\ pool'.height_ = pool.height_
          /\ (pcall'.tex = NilTexture \/ ~Matches(pcall'.tex, pool)) => pool' = pool
          /\ pcall'.tex \in phist.stale =>
                 pcall'.tex \notin Range(pool'.available_)]_vars

\* C24 amended: release appends the texture to available_ exactly when it
\* is not nil and matches the configuration at the time of the release,
\* and otherwise changes nothing; a texture held across a resize is not
\* recycled as long as the configuration differs from its dimensions.
C24_ReleaseKeepsMatchingOnly ==
    [][pcall'.op = "release" =>
          /\ pool'.width_ = pool.width_ /\ pool'.height_ = pool.height_
          /\ (pcall'.tex # NilTexture /\ Matches(pcall'.tex, pool)) =>
                 pool'.available_ = Append(pool.available_, pcall'.tex)
          /\ (pcall'.tex = NilTexture \/ ~Matches(pcall'.tex, pool)) => pool' = pool
          /\ (pcall'.tex \in phist.stale /\ ~Matches(pcall'.tex, pool)) =>
                 pcall'.tex \notin Range(pool'.available_)]_vars

\* a texture held across a resize to other dimensions was released and
\* dropped, the pool keeping the textures it had
C24_Witness ==
    /\ pcall.op = "release"
    /\ pcall.tex # NilTexture
    /\ ~Matches(pcall.tex, pool)
    /\ pcall.tex \notin Range(pool.available_)
    /\ pool.available_ # <<>>

\* C25: resize to the dimensions the pool has changes nothing; resize to
\* other dimensions empties available_ and sets the configuration.
C25_ResizeClearsOnChange ==
    [][pcall'.op = "resize" =>
          IF pcall'.width = pool.width_ /\ pcall'.height = pool.height_
          THEN pool' = pool
          ELSE /\ pool'.available_ = <<>>
               /\ pool'.width_ = pcall'.width
               /\ pool'.height_ = pcall'.height]_vars

\* a resize to the dimensions in force left a texture available, an earlier
\* resize having changed the height only
C25_Witness ==
    /\ pcall.op = "resize"
    /\ pcall.width = pool.width_
    /\ pcall.height = pool.height_
    /\ pool.available_ # <<>>
    /\ \E tex \in phist.stale : tex.width = pool.width_ /\ tex.height # pool.height_

\* a push call returned in this step
NdiPushed == ncall' # ncall /\ ncall'.op \in NdiPushOps

\* C26: the queue of the network sink never holds more entries than its
\* configured depth; a push of a valid frame to the running sink whose queue
\* is full is rejected: it returns false, framesDropped goes up by one and
\* the queued entries are unchanged; the push completes in the caller's own
\* step, wherever the send task stands.
C26_BoundedQueueRejectsNewest ==
    [][/\ Len(ndi'.pixel_queue_) <= ndi'.async_queue_size
       /\ (/\ NdiPushed
           /\ ndi.running_
           /\ ncall'.frame.valid
           /\ Len(ndi.pixel_queue_) >= ndi.async_queue_size)
          => /\ ncall'.ret = <<FALSE>>
             /\ ndi'.frames_dropped_ = ndi.frames_dropped_ + 1
             /\ ndi'.pixel_queue_ = ndi.pixel_queue_
             /\ nth' = nth]_vars

\* a valid frame was just rejected by the full queue while the send task was
\* busy sending
C26_Witness ==
    /\ ncall.op \in NdiPushOps
    /\ ncall.frame.valid
    /\ ncall.ret = <<FALSE>>
    /\ ndi.running_
    /\ Len(ndi.pixel_queue_) = ndi.async_queue_size
    /\ ndi.frames_dropped_ >= 1
    /\ nth.sender = "send"

\* C27: framesSent and framesDropped never decrease; whenever the running
\* sink has drained (queue empty, no frame in the send task's hand) sent +
\* dropped equals the number of frames offered while running; as long as the
\* send task has taken nothing, offering K > Q frames to a queue of depth Q
\* leaves framesDropped = K - Q.
C27_CountersAccountForOffers ==
    [][/\ ndi'.frames_sent_ >= ndi.frames_sent_
       /\ ndi'.frames_dropped_ >= ndi.frames_dropped_
       /\ (ndi'.running_ /\ ndi'.pixel_queue_ = <<>> /\ nth'.sender # "send")
          => ndi'.frames_sent_ + ndi'.frames_dropped_ = nhist'.offered
       /\ (nhist'.popped = 0 /\ nhist'.offered > ndi'.async_queue_size)
          => ndi'.frames_dropped_ = nhist'.offered - ndi'.async_queue_size]_vars

\* the running sink has drained after it sent some frames and dropped others
C27_Witness ==
    /\ ndi.running_
    /\ ~ndi.should_stop_
    /\ ndi.pixel_queue_ = <<>>
    /\ nth.sender = "wait"
    /\ ndi.frames_sent_ >= 2
    /\ ndi.frames_dropped_ >= 1
    /\ ndi.frames_sent_ + ndi.frames_dropped_ = nhist.offered

\* a stop call returned in this step
NdiStopped == ncall' # ncall /\ ncall'.op = "stop"

\* C28: stop() returns only after the send task has left its loop; once it
\* has returned no frame is sent any more, whatever was still queued or
\* pushed meanwhile; a stop() of a sink that is not running changes nothing;
\* and a stop() that has been called returns.
C28_StopJoinsSendTask ==
    /\ [](nhist.stopped => nth.sender = "exited" /\ ~ndi.running_)
    /\ [][nhist.stopped => wire' = wire /\ ndi'.frames_sent_ = ndi.frames_sent_]_vars
    /\ [][(NdiStopped /\ ~ndi.running_)
          => ndi' = ndi /\ nth' = nth /\ wire' = wire /\ nhist' = nhist]_vars
    /\ (nth.stop = "join") ~> (nth.stop = "idle" /\ nhist.stopped)

\* stop() has returned and left accepted frames unsent
C28_Witness ==
    /\ nhist.stopped
    /\ ncall.op = "stop"
    /\ nth.sender = "exited"
    /\ Len(wire) >= 1
    /\ Len(nhist.accepted) > Len(wire)

\* C29: the frames the send task hands to the network are, in order, the
\* frames the pushes accepted: what was sent so far is a prefix of the
\* sequence of accepted frames.
C29_SentInEnqueueOrder ==
    /\ Len(wire) <= Len(nhist.accepted)
    /\ wire = SubSeq(nhist.accepted, 1, Len(wire))

\* three frames were sent while others wait in the queue and one was dropped
C29_Witness ==
    /\ Len(wire) >= 3
    /\ Len(ndi.pixel_queue_) >= 2
    /\ ndi.frames_dropped_ >= 1

\* C30: pushFrame and pushPixelData return false and change nothing (queue,
\* counters, status, send task) when the sink is not running or the frame is
\* not valid.
C30_RefusedPushHasNoEffect ==
    [][(NdiPushed /\ (~ndi.running_ \/ ~ncall'.frame.valid))
       => /\ ncall'.ret = <<FALSE>>
          /\ ndi' = ndi
          /\ nth' = nth
          /\ wire' = wire
          /\ nhist' = nhist]_vars

\* a valid buffer was pushed to the stopped sink and refused
C30_Witness ==
    /\ nhist.stopped
    /\ ncall.op = "pushPixelData"
    /\ ncall.frame.valid
    /\ ncall.ret = <<FALSE>>
    /\ ndi.status_ = "Stopped"
    /\ ndi.frames_sent_ + ndi.frames_dropped_ < nhist.offered

\* C31: whatever calls of the transition interface were made, a sink that is
\* not transitioning has progress 0 and a transitioning sink has a progress
\* p with 0 <= p < 1.
C31_ProgressWithinRange ==
    /\ ~sink.transition_in_progress_ => sink.transition_progress_ = 0
    /\ sink.transition_in_progress_ =>
           /\ 0 <= sink.transition_progress_
           /\ sink.transition_progress_ < F32One

\* C32: a start that begins a transition (a timed start with a type other
\* than Cut and a duration > 0, or a T-bar start) made while a transition is
\* in flight does not commit that transition: the pending input becomes the
\* new target, the progress goes back to 0, the sink stays transitioning and
\* the current (input, crop, edge-blend) triple is untouched.
C32_StartReplacesInFlight ==
    [][(/\ sink.transition_in_progress_
        /\ (DeferredStart(call') \/ call'.op \in TBarStartOps)) =>
          /\ sink'.pending_input_ = call'.args.toInput
          /\ sink'.transition_progress_ = 0
          /\ sink'.transition_in_progress_
          /\ Triple(sink') = Triple(sink)]_vars

\* startTransition(2, Wipe, 2) was made on a transition that had moved off 0,
\* on a sink that has not committed any input yet
C32_Witness ==
    /\ call.op = "startTransition"
    /\ call.args.type = "Wipe"
    /\ call.args.durationFrames = 2
    /\ call.from.transitioning
    /\ call.from.advanced
    /\ sink.transition_in_progress_
    /\ sink.transition_progress_ = 0
    /\ sink.pending_input_ = call.args.toInput
    /\ sink.current_input_ = -1

====
